---- MODULE Spec2Model ----
(***************************************************************************)
(* Offline content-enrichment pipeline of roche_offline:                   *)
(* offline_indexer.py (batch scheduler, checkpoint part files, the         *)
(* per-document pipeline) with utils/open_api.py (model failover) and      *)
(* utils/embedding.py (dense and sparse embedding calls).                  *)
(*                                                                         *)
(* Texts are sequences of string tokens; the empty text "" is <<>>.        *)
(* Document keys are the integers 1..n, so sorted key order is numeric.    *)
(***************************************************************************)
EXTENDS Integers, Sequences, FiniteSets, TLC

----------------------------------------------------------------------------
(* Bounds of the model *)

\* documents in the input of the batch specification
NumDocs == 3
\* runs of main() over the same input and checkpoint directory
MaxRuns == 2
\* pages of the document in the single-document specification
DocPages == 4
\* batch_size (2000 in the source), scaled
BatchSize == 2
\* the cap of max_workers (32 in the source), scaled
MaxWorkers == 2
\* width of the per-document semaphore (36 in the source), scaled
GateWidth == 2
\* longest text sample given to the language detector, in characters
SampleLen == 6
\* most repetitions of a unit in a page given to the normalization
MaxReps == 25
DetectLen == 4
NumHashes == 2
MaxOcrCalls == 2
NumFiles == 2
NumStoredFiles == 3
\* binary digits after the point in a float of the model
Frac == 10
\* components of an embedding vector
EmbedDim == 2
\* largest magnitude of a component of a vector of the dense backend (in 1.0s)
MaxComponent == 4

(* Program constants *)

\* for attempt in range(2)
MaxAttempts == 2
\* len(qwen_vl_local_list)
NumBackends == 3
\* get_sparse_embedding(max_retries=3)
SparseMaxRetries == 3
\* the regex (.+?)\1{20,}: a unit followed by at least 20 more copies
RepeatMin == 20

----------------------------------------------------------------------------
(* Small helpers *)

Min(S) == CHOOSE m \in S : \A n \in S : m <= n

Range(s) == {s[i] : i \in 1..Len(s)}

\* the None of the source
None == [kind |-> "None"]

\* no library function is called on its own
NoCall == [fn |-> "none"]

\* no second run of main() is under way
NoPeer == [pc |-> "none", i |-> 0, part_number |-> 1, batch_data |-> <<>>,
           ran |-> {}, wrote |-> {}]

----------------------------------------------------------------------------
(* Text normalisation: offline_indexer.py line 73, utils/embedding.py 21-23 *)

TableTags ==
    {"<table>", "</table>", "<tr>", "</tr>", "<td>", "</td>", "<th>", "</th>",
     "<thead>", "</thead>", "<tbody>", "</tbody>", "<tfoot>", "</tfoot>",
     "<TD>", "</TD>", "<Table>"}

\* table_pattern.sub(' ', text)
clean_html_tags(text) ==
    [i \in 1..Len(text) |-> IF text[i] \in TableTags THEN " " ELSE text[i]]

\* number of consecutive copies of the unit text[i..i+L-1] found from position i
RECURSIVE CountReps(_, _, _, _)
CountReps(text, i, L, k) ==
    IF /\ i + (k + 1) * L - 1 <= Len(text)
       /\ SubSeq(text, i + k * L, i + (k + 1) * L - 1) = SubSeq(text, i, i + L - 1)
    THEN CountReps(text, i, L, k + 1)
    ELSE k

\* unit lengths with which (.+?)\1{20,} matches at position i ("." is no newline)
UnitLengths(text, i) ==
    {L \in 1..(Len(text) - i + 1) :
        /\ \A j \in i..(i + L - 1) : text[j] # "\n"
        /\ CountReps(text, i, L, 1) >= RepeatMin + 1}

\* re.sub(r"(.+?)\1{20,}", lambda m: m.group(1), text), scanning from position i
RECURSIVE CollapseFrom(_, _)
CollapseFrom(text, i) ==
    IF i > Len(text) THEN <<>>
    ELSE IF UnitLengths(text, i) = {} THEN <<text[i]>> \o CollapseFrom(text, i + 1)
    ELSE LET L == Min(UnitLengths(text, i))
             k == CountReps(text, i, L, 1)
         IN  SubSeq(text, i, i + L - 1) \o CollapseFrom(text, i + L * k)

\* text.strip() is empty
IsBlank(text) == \A i \in 1..Len(text) : text[i] \in {" ", "\n"}

\* one element of the list comprehension of line 73
NormalizePage(text) ==
    IF text # <<>> /\ ~IsBlank(text) THEN clean_html_tags(CollapseFrom(text, 1)) ELSE <<>>

NormalizeContent(pages) == [i \in 1..Len(pages) |-> NormalizePage(pages[i])]

----------------------------------------------------------------------------
(* Model failover: utils/open_api.py *)

\* what one backend does with one request
BackendOutcomes == {"ok", "timeout", "error"}

\* a Model.__call__ that lets a timeout out as an exception
ModelCallRaising(outcome, reply) ==
    IF outcome = "ok" THEN [kind |-> "return", text |-> reply]
    ELSE [kind |-> "raise", text |-> <<>>]

\* Model.__call__: the streamed text, "" on a timeout, the exception otherwise
ModelCall(outcome, reply) ==
    CASE outcome = "ok"      -> [kind |-> "return", text |-> reply]
      [] outcome = "timeout" -> [kind |-> "return", text |-> <<>>]
      [] OTHER               -> [kind |-> "raise", text |-> <<>>]

\* qwen_vl_predict: outs[k] is the outcome of the k-th backend drawn from
\* available_models; a backend that raises is removed, the last one re-raises
RECURSIVE qwen_vl_predict(_, _)
qwen_vl_predict(outs, reply) ==
    IF outs = <<>> THEN [kind |-> "raise", text |-> <<>>]
    ELSE LET r == ModelCall(Head(outs), reply)
         IN  IF r.kind = "return" THEN r ELSE qwen_vl_predict(Tail(outs), reply)

BackendRuns == [1..NumBackends -> BackendOutcomes]

\* a timeout branch of Model.__call__ was taken, or every backend raised
CallFailed(outs) ==
    \/ \A k \in 1..Len(outs) : outs[k] = "error"
    \/ \E k \in 1..Len(outs) : outs[k] = "timeout" /\ \A j \in 1..(k - 1) : outs[j] = "error"

\* what one call of qwen_vl_predict can come to: its result, and whether the
\* call failed on the way
QwenResults(reply) ==
    {[res |-> qwen_vl_predict(outs, reply), failed |-> CallFailed(outs)] : outs \in BackendRuns}

----------------------------------------------------------------------------
(* Embedding calls: utils/embedding.py *)

\* the dense vector of one string, a function of the cleaned string
DenseVector(text) == <<"dense">> \o clean_html_tags(text)

\* a get_embedding that sends every list to the backend
get_embeddingOfAny(text, outcome) ==
    IF outcome = "ok"
    THEN [kind |-> "return", value |-> [i \in 1..Len(text) |-> DenseVector(text[i])],
          requests |-> 1]
    ELSE [kind |-> "raise", value |-> <<>>, requests |-> 1]

\* get_embedding: [] for an empty list, else one normalized vector per item of
\* response.data (the backend answers one vector per input, in order);
\* requests counts the calls of client.embeddings.create
get_embedding(text, outcome) ==
    IF Len(text) = 0 THEN [kind |-> "return", value |-> <<>>, requests |-> 0]
    ELSE IF outcome = "ok"
         THEN [kind |-> "return", value |-> [i \in 1..Len(text) |-> DenseVector(text[i])],
               requests |-> 1]
         ELSE [kind |-> "raise", value |-> <<>>, requests |-> 1]

\* what one attempt of the sparse request does
SparseOutcomes == {"ok", "client_error", "timeout", "other"}

SparseVector(text) == <<"sparse">> \o clean_html_tags(text)

\* a constant pause between two attempts
wait_timeFlat(attempt) == 1

\* wait_time = 2 ** attempt
wait_time(attempt) == 2 ^ attempt

\* what the call does to the outside: the request of attempt n, a sleep of n seconds
Post(n) == [e |-> "post", n |-> n]
Sleep(n) == [e |-> "sleep", n |-> n]

\* a retry loop that catches every exception: an error of any kind is
\* retried after the sleep
RECURSIVE get_sparse_embeddingCatchingAll(_, _, _)
get_sparse_embeddingCatchingAll(text, outs, attempt) ==
    LET o == outs[attempt + 1]
    IN  IF o = "ok"
        THEN [kind |-> "return", value |-> [i \in 1..Len(text) |-> SparseVector(text[i])],
              events |-> <<Post(attempt)>>]
        ELSE IF attempt = SparseMaxRetries - 1
             THEN [kind |-> CASE o = "timeout" -> "raise_timeout"
                              [] o = "other" -> "raise_other"
                              [] OTHER -> "raise_client",
                   value |-> <<>>, events |-> <<Post(attempt)>>]
             ELSE LET rest == get_sparse_embeddingCatchingAll(text, outs, attempt + 1)
                  IN  [rest EXCEPT !.events = <<Post(attempt), Sleep(wait_time(attempt))>> \o @]

\* get_sparse_embedding: attempt k of max_retries; ClientError and TimeoutError
\* are retried after the sleep and re-raised on the last attempt, anything
\* else propagates; events is what the call did, in order
RECURSIVE get_sparse_embedding(_, _, _)
get_sparse_embedding(text, outs, attempt) ==
    LET o == outs[attempt + 1]
    IN  CASE o = "ok" ->
               [kind |-> "return", value |-> [i \in 1..Len(text) |-> SparseVector(text[i])],
                events |-> <<Post(attempt)>>]
          [] o = "other" ->
               [kind |-> "raise_other", value |-> <<>>, events |-> <<Post(attempt)>>]
          [] OTHER ->
               IF attempt = SparseMaxRetries - 1
               THEN [kind |-> IF o = "timeout" THEN "raise_timeout" ELSE "raise_client",
                     value |-> <<>>, events |-> <<Post(attempt)>>]
               ELSE LET rest == get_sparse_embedding(text, outs, attempt + 1)
                    IN  [rest EXCEPT !.events = <<Post(attempt), Sleep(wait_time(attempt))>> \o @]

SparseRuns == [1..SparseMaxRetries -> SparseOutcomes]

\* what one call of get_sparse_embedding can come to
SparseResults(text) == {get_sparse_embedding(text, outs, 0) : outs \in SparseRuns}

\* generate_embeddings: the dense call, then the sparse call; an exception
\* of either ends it
generate_embeddings(processed_content, outcome, outs) ==
    LET embeddings == get_embedding(processed_content, outcome)
        sparse_embeddings == get_sparse_embedding(processed_content, outs, 0)
    IN  IF embeddings.kind = "raise"
        THEN [kind |-> "raise", embeddings |-> <<>>, sparse_embeddings |-> <<>>,
              requests |-> embeddings.requests, events |-> <<>>]
        ELSE [kind |-> sparse_embeddings.kind, embeddings |-> embeddings.value,
              sparse_embeddings |-> sparse_embeddings.value,
              requests |-> embeddings.requests, events |-> sparse_embeddings.events]

\* what one call of get_embedding can come to
DenseResults(text) == {get_embedding(text, outcome) : outcome \in {"ok", "error"}}

----------------------------------------------------------------------------
(* Vector normalisation: utils/embedding.py lines 12-18 *)

\* A float is a whole number of steps of 2^-Frac: Unit stands for 1.0 and 1
\* for the smallest positive magnitude of the arithmetic. A result that is
\* no whole number of steps is rounded toward zero, so the square of a
\* magnitude below 2^-(Frac/2) is 0.0, as the square of a binary64 magnitude
\* below 2^-537 is.
Unit == 2 ^ Frac

Abs(x) == IF x < 0 THEN -x ELSE x

\* x * y
Mul(x, y) == IF x * y >= 0 THEN (x * y) \div Unit ELSE -((-(x * y)) \div Unit)

\* x / y for y > 0
Div(x, y) == IF x >= 0 THEN (x * Unit) \div y ELSE -(((-x) * Unit) \div y)

\* the largest norm of a vector of the dense backend
MaxNorm == EmbedDim * MaxComponent * Unit

\* the largest r in lo..(hi - 1) with r * r <= v
RECURSIVE SqrtBetween(_, _, _)
SqrtBetween(v, lo, hi) ==
    IF hi - lo <= 1 THEN lo
    ELSE LET mid == (lo + hi) \div 2
         IN  IF mid * mid <= v THEN SqrtBetween(v, mid, hi) ELSE SqrtBetween(v, lo, mid)

\* sqrt(x)
Sqrt(x) == SqrtBetween(x * Unit, 0, MaxNorm + 1)

RECURSIVE Dot(_, _)
Dot(x, y) == IF x = <<>> THEN 0 ELSE Mul(Head(x), Head(y)) + Dot(Tail(x), Tail(y))

\* np.linalg.norm of a 1-D array: sqrt(dot(x, x))
Norm(x) == Sqrt(Dot(x, x))

normalize_embedding(embedding) ==
    LET norm == Norm(embedding)
    IN  IF norm = 0 THEN embedding
        ELSE [k \in 1..Len(embedding) |-> Div(embedding[k], norm)]

----------------------------------------------------------------------------
(* Language detection: utils/lang_detect.py *)

\* A text sample is a sequence of characters, each given by its class:
\* "zh" a character of 一-鿿, "en" an ASCII letter, "sp" a space,
\* "nl" a newline or a tab, "pu" a punctuation mark or an ASCII digit listed
\* in remove_characters, "ot" any other character

\* the classes of characters the pattern remove_characters matches
remove_characters == {"nl", "pu"}

\* lang_patternlist, in the order of the dict
lang_patternlist == <<"zh", "en">>

default_lang == "en"

\* re.sub(self.remove_characters, "", text)
cleaning_text(text) == SelectSeq(text, LAMBDA c : c \notin remove_characters)

\* "\n".join(text) of a str: a newline between every two characters
JoinNewline(text) ==
    [k \in 1..(IF Len(text) = 0 THEN 0 ELSE 2 * Len(text) - 1) |->
        IF k % 2 = 1 THEN text[(k + 1) \div 2] ELSE "nl"]

\* the number of characters of text that are of a class in S
CountOf(text, S) == Cardinality({k \in 1..Len(text) : text[k] \in S})

\* sort_lang_list on at most two entries: descending by share, stable
sort_lang_list(lang_list) ==
    IF Len(lang_list) = 2 /\ lang_list[2].count > lang_list[1].count
    THEN <<lang_list[2], lang_list[1]>>
    ELSE lang_list

\* LangDetector.detect with its default flags: the characters no pattern
\* matches are counted for default_lang; an entry [lang, count / len(text)]
\* is kept as the pair of count and len(text)
detect(text) ==
    LET cleaned == cleaning_text(text)
        unknown == CountOf(cleaned, {"sp", "nl", "pu", "ot"})
        resDict == [lang \in {"zh", "en"} |->
                       CountOf(cleaned, {lang}) + (IF lang = default_lang THEN unknown ELSE 0)]
        entry(lang) == [lang |-> lang, count |-> resDict[lang], of |-> Len(cleaned)]
        result_list == SelectSeq([k \in 1..Len(lang_patternlist) |-> entry(lang_patternlist[k])],
                                 LAMBDA e : e.count > 0)
    IN  sort_lang_list(result_list)

\* list.sort(key=x[1], reverse=True) on a list of any length: descending by
\* share, entries of equal share in the order they had
RECURSIVE sorted_by_share(_)
sorted_by_share(lang_list) ==
    IF lang_list = <<>> THEN <<>>
    ELSE LET m == CHOOSE k \in 1..Len(lang_list) :
                      /\ \A j \in 1..Len(lang_list) : lang_list[j].count <= lang_list[k].count
                      /\ \A j \in 1..(k - 1) : lang_list[j].count < lang_list[k].count
             rest == [j \in 1..(Len(lang_list) - 1) |->
                         IF j < m THEN lang_list[j] ELSE lang_list[j + 1]]
         IN  <<lang_list[m]>> \o sorted_by_share(rest)

\* LangDetector.detect(text, unknownUseDefault=False): the characters no
\* pattern matches stay in unknown_list; `unknown_num := len(unknown_list) > 0`
\* binds unknown_num to the comparison, so the entry appended is
\* ["unknown", True / len(text)], the share of one character
detectKeepingUnknown(text) ==
    LET cleaned == cleaning_text(text)
        unknown_list == SelectSeq(cleaned, LAMBDA c : c \notin {"zh", "en"})
        entry(lang) == [lang |-> lang, count |-> CountOf(cleaned, {lang}), of |-> Len(cleaned)]
        result_list == SelectSeq([k \in 1..Len(lang_patternlist) |-> entry(lang_patternlist[k])],
                                 LAMBDA e : e.count > 0)
        unknown_num == Len(unknown_list) > 0
    IN  sorted_by_share(IF unknown_num
                        THEN Append(result_list,
                                    [lang |-> "unknown", count |-> 1, of |-> Len(cleaned)])
                        ELSE result_list)

\* detect_language; lang[1][1] > 0.2 is 5 * count > len(text)
detect_language(text) ==
    LET lang == detect(JoinNewline(text))
    IN  IF /\ Len(lang) > 0
           /\ \/ lang[1].lang = "zh"
              \/ Len(lang) > 1 /\ lang[2].lang = "zh" /\ 5 * lang[2].count > lang[2].of
        THEN "Chinese"
        ELSE "English"

----------------------------------------------------------------------------
(* The input: load_ocr_json and the task list of main *)

\* raw OCR text of page i (0-based); every page carries its own glyph
RawPage(i) ==
    CASE i = 0 -> <<"<td>", "p0", "</td>">>
      [] i = 1 -> <<"p1">>
      [] i = 2 -> <<"p2", "<tr>">>
      [] i = 3 -> <<"p3">>
      [] OTHER -> <<" ">>

\* ocr_data[key]['text'] of a document of n pages
Document(n) == [i \in 1..n |-> RawPage(i - 1)]

\* mapping[key]["file_name"]
FileName(key) == <<"file", ToString(key)>>

VARIABLES
    peer,           \* a second run of main() on the same input and checkpoint directory
    libcall,        \* the library function called on its own, its input and result
    content,        \* ocr_data: key -> list of raw page texts
    max_workers,    \* min(mp.cpu_count(), 32) of the machine the runs are on
    file,           \* the checkpoint directory: part number -> part file
    run,            \* number of the current run of main()
    prevEnd,        \* how the previous run ended ("none" in the first run)
    startFile,      \* the checkpoint directory as this run found it
    opens,          \* part number -> times the file was opened for writing
    pc,             \* where main() is
    i,              \* loop index of main
    part_number,
    all_results,
    results,        \* results of the running batch, in arrival order
    batch_data,     \* (key, record) pairs in insertion order
    nextTask,       \* tasks of the batch handed to the pool so far
    w,              \* key -> state of the pipeline working on it
    logPart,        \* the part this run took to the pool last (0: none yet)
    invocations,    \* key -> process_single_file_async calls for that part
    log             \* key -> how each finished invocation for that part ended

vars == <<peer, libcall, content, max_workers, file, run, prevEnd, startFile, opens, pc, i, part_number,
          all_results, results, batch_data, nextTask, w, logPart, invocations, log>>

RECURSIVE sorted(_)
sorted(S) == IF S = {} THEN <<>> ELSE <<Min(S)>> \o sorted(S \ {Min(S)})

\* all_keys = sorted(list(ocr_data.keys())); one task per key
all_keys == sorted(DOMAIN content)

tasks == all_keys

total_batches == (Len(tasks) + BatchSize - 1) \div BatchSize

\* a slice that always starts at the head of the task list
batch_tasksFromHead == SubSeq(tasks, 1, Min({BatchSize, Len(tasks)}))

\* tasks[i:i + batch_size]
batch_tasks == SubSeq(tasks, i + 1, Min({i + BatchSize, Len(tasks)}))

\* the keys of part k: the slice the loop reaches with part_number = k
PartKeys(k) ==
    Range(SubSeq(tasks, (k - 1) * BatchSize + 1, Min({k * BatchSize, Len(tasks)})))

AbsentFile == [state |-> "absent", data |-> <<>>]

\* part_file.exists()
Exists(f) == f.state # "absent"

\* an assignment in place of the update: the dict of the pairs alone
UpdateReplacing(d, pairs) ==
    [x \in {pairs[k][1] : k \in 1..Len(pairs)} |->
        (CHOOSE q \in Range(pairs) : q[1] = x)[2]]

\* dict.update with the pairs of a part file or of batch_data
RECURSIVE Update(_, _)
Update(d, pairs) ==
    IF pairs = <<>> THEN d
    ELSE LET k == Head(pairs)[1]
             v == Head(pairs)[2]
         IN  Update([x \in (DOMAIN d) \cup {k} |-> IF x = k THEN v ELSE d[x]], Tail(pairs))

EmptyDict == [x \in {} |-> None]

----------------------------------------------------------------------------
(* The per-document pipeline: process_single_file_sync / _async *)

IdleW ==
    [stage |-> "idle", attempt |-> 0, metadata |-> None, norm |-> <<>>,
     file_summary |-> <<>>, started |-> 0, completions |-> <<>>,
     processed_content |-> <<>>, embeddings |-> <<>>, failedCall |-> FALSE,
     prompts |-> {}]

InFlightStages == {"metadata", "summary", "context", "dense", "sparse"}

InFlight(d) == w[d].stage \in InFlightStages

\* an invocation the timer cannot reach
NeverSuspended(d) == FALSE

\* the invocation is waiting in an await (a document without pages raises
\* IndexError before the first await)
Suspended(d) == InFlight(d) /\ Len(content[d]) > 0

\* The prompts: the page texts a prompt carries are pages[1..] and stand for
\* the pages from, from + 1, .. of the document (1-based); page is the page
\* the context is asked for (0-based, 0 when the call is not a context call)

\* get_file_metadata: user_prompt with file_name and content[0] of its argument
MetadataPrompt(pages, file_name) ==
    [call |-> "metadata", file_name |-> file_name, page |-> 0, summary |-> <<>>,
     from |-> 1, pages |-> <<pages[1]>>, current |-> <<>>]

\* process_content line 80: file_name and '\n'.join(content[:2])
SummaryPrompt(norm, file_name) ==
    [call |-> "summary", file_name |-> file_name, page |-> 0, summary |-> <<>>,
     from |-> 1, pages |-> SubSeq(norm, 1, Min({2, Len(norm)})), current |-> <<>>]

\* a loop over enumerate(content): a context prompt for every page, the first included
ContextPromptOfEveryPage(norm, file_summary, k) ==
    LET lo == IF k - 2 > 0 THEN k - 2 ELSE 0
    IN  [call |-> "context", file_name |-> <<>>, page |-> k, summary |-> file_summary,
         from |-> lo + 1, pages |-> SubSeq(norm, lo + 1, k + 1), current |-> norm[k + 1]]

\* process_content lines 85-108, for i, text in enumerate(content[1:]):
\* file_summary, content[max(0, i - 2) : i + 1] and text
ContextPrompt(norm, file_summary, k) ==
    LET lo == IF k - 2 > 0 THEN k - 2 ELSE 0
    IN  [call |-> "context", file_name |-> <<>>, page |-> k + 1, summary |-> file_summary,
         from |-> lo + 1, pages |-> SubSeq(norm, lo + 1, k + 1), current |-> norm[k + 2]]

\* process_single_file_async starts: the metadata call is issued, unless
\* content[0] raises
FirstStage(d, attempt) ==
    [IdleW EXCEPT !.stage = "metadata", !.attempt = attempt,
                  !.prompts = IF Len(content[d]) = 0 THEN {}
                              ELSE {MetadataPrompt(content[d], FileName(d))}]

\* Replies of the language model to the metadata prompt. A reply is a
\* sequence of tokens: brackets, the members "entity" and "time" (each with a
\* string value), "entity:null" (the member entity with the value null),
\* or text that is no JSON at all.

\* the object asked for, complete or cut short, or no JSON: the replies of
\* the batch specifications
ShapedReplies == {<<"{", "entity", "time", "}">>, <<"{", "entity", "time">>, <<"garbage">>}

\* also JSON of another shape: an object without time, an array, a null
\* value: the replies of the single-document specification
MetadataReplies ==
    ShapedReplies \cup {<<"{", "entity", "}">>, <<"[", "entity", "]">>,
                        <<"{", "entity:null", "time", "}">>}

SummaryReply == <<"S">>

\* the reply to the context prompt of page i echoes the page it was asked about
CtxReply(p) == <<"ctx", ToString(p)>>

\* repair_json: closes an unfinished object or array, "" when nothing can be
\* repaired
repair_json(text) ==
    IF text # <<>> /\ Head(text) = "{"
    THEN IF text[Len(text)] = "}" THEN text ELSE Append(text, "}")
    ELSE IF text # <<>> /\ Head(text) = "["
    THEN IF text[Len(text)] = "]" THEN text ELSE Append(text, "]")
    ELSE <<>>

\* eval(repair_json(file_summary)): the value of the JSON text as a Python
\* expression; "" is a SyntaxError and null an undefined name
ParseMetadata(text) ==
    LET r == repair_json(text)
    IN  IF r = <<>> \/ "entity:null" \in Range(r) THEN [kind |-> "raise"]
        ELSE IF Head(r) = "[" THEN [kind |-> "list", fields |-> {}]
        ELSE [kind |-> "dict", fields |-> {r[k] : k \in 2..(Len(r) - 1)}]

\* results collected in the order the calls finished (as_completed)
gatherAsCompleted(completions, n) == [k \in 1..n |-> completions[k].text]

\* asyncio.gather: the result of awaitable k at position k, whatever the
\* order in which the awaitables finished
gather(completions, n) ==
    [k \in 1..n |->
        (CHOOSE c \in Range(completions) : c.page = k).text]

\* an assembly that forgets the first page
AssembleContextOnly(norm, file_summary, context_list) ==
    [k \in 1..(Len(norm) - 1) |->
        <<"file_summary: ">> \o file_summary \o <<"\n", "context: ">>
            \o context_list[k] \o <<"\n", "page_content:", "\n">> \o norm[k + 1]]

\* lines 126-130: results of process_content
Assemble(norm, file_summary, context_list) ==
    [k \in 1..Len(norm) |->
        IF k = 1
        THEN <<"file_summary: ">> \o file_summary \o <<"\n">> \o norm[1]
        ELSE <<"file_summary: ">> \o file_summary \o <<"\n", "context: ">>
                 \o context_list[k - 1] \o <<"\n", "page_content:", "\n">> \o norm[k]]

\* the result dict of process_single_file_async
Record(d, ws, sparse) ==
    [kind |-> "record", file_name |-> FileName(d), metadata |-> ws.metadata,
     processed_content |-> ws.processed_content, embeddings |-> ws.embeddings,
     sparse_embeddings |-> sparse]

\* return key, result: the worker is free and the pool delivers the result
Return(d, result, how) ==
    /\ w' = [w EXCEPT ![d] = [IdleW EXCEPT !.stage = "returned",
                                                !.failedCall = w[d].failedCall]]
    /\ results' = Append(results, <<d, result>>)
    /\ log' = [log EXCEPT ![d] = Append(@, how)]
    /\ invocations' = invocations

\* except Exception: return key, None
Fail(d) == Return(d, None, "error")

\* a retry test that lets the second attempt retry too
RetryLimitOff == MaxAttempts

\* the attempts the loop over range(2) retries after: attempt < 1
RetryLimit == MaxAttempts - 1

\* except asyncio.TimeoutError: continue on the first attempt, give up on the second
OnTimeoutError(d, how) ==
    IF w[d].attempt < RetryLimit
    THEN /\ w' = [w EXCEPT ![d] = FirstStage(d, w[d].attempt + 1)]
         /\ invocations' = [invocations EXCEPT ![d] = @ + 1]
         /\ log' = [log EXCEPT ![d] = Append(@, how)]
         /\ results' = results
    ELSE Return(d, None, how)

\* the documents a worker of the pool is working on
Busy == {d \in DOMAIN w : InFlight(d)}

\* a pool that takes a task whenever there is one
PoolAlwaysFree == TRUE

\* one of the max_workers processes of the pool is idle
PoolHasFreeWorker == Cardinality(Busy) < max_workers

\* pool.imap_unordered hands the next task to a free worker
Dispatch ==
    /\ pc = "pool"
    /\ nextTask < Len(batch_tasks)
    /\ PoolHasFreeWorker
    /\ LET d == batch_tasks[nextTask + 1]
       IN  /\ w' = [w EXCEPT ![d] = FirstStage(d, 0)]
           /\ invocations' = [invocations EXCEPT ![d] = @ + 1]
    /\ nextTask' = nextTask + 1
    /\ UNCHANGED <<peer, libcall, content, max_workers, file, run, prevEnd, startFile, opens, pc, i, part_number,
                   all_results, results, batch_data, logPart, log>>

PipelineFrame ==
    UNCHANGED <<peer, libcall, content, max_workers, file, run, prevEnd, startFile, opens, pc, i, part_number,
                all_results, batch_data, nextTask, logPart>>

\* what get_file_metadata can come to: the dict, or an exception of the call
\* or of eval
MetadataResults(replies) ==
    {LET r == q.res
     IN  IF r.kind = "raise" THEN [kind |-> "raise"] ELSE ParseMetadata(r.text) :
        q \in UNION {QwenResults(reply) : reply \in replies}}

\* a metadata call that reads the first page of a document without pages
\* as an empty text
MetadataCallOfAnyLength(d, replies) ==
    /\ pc = "pool"
    /\ w[d].stage = "metadata"
    /\ \E m \in MetadataResults(replies) :
             IF m.kind = "raise"
             THEN Fail(d)
             ELSE /\ w' = [w EXCEPT ![d].stage = "summary",
                                    ![d].metadata = m,
                                    ![d].norm = NormalizeContent(content[d]),
                                    ![d].prompts = @ \cup
                                        {SummaryPrompt(NormalizeContent(content[d]),
                                                       FileName(d))}]
                  /\ UNCHANGED <<results, log, invocations>>
    /\ PipelineFrame

\* get_file_metadata, then the synchronous head of process_content
MetadataCall(d, replies) ==
    /\ pc = "pool"
    /\ w[d].stage = "metadata"
    /\ IF Len(content[d]) = 0
       THEN Fail(d)
       ELSE \E m \in MetadataResults(replies) :
                  IF m.kind = "raise"
                  THEN Fail(d)
                  ELSE /\ w' = [w EXCEPT ![d].stage = "summary",
                                         ![d].metadata = m,
                                         ![d].norm = NormalizeContent(content[d]),
                                         ![d].prompts = @ \cup
                                             {SummaryPrompt(NormalizeContent(content[d]),
                                                            FileName(d))}]
                       /\ UNCHANGED <<results, log, invocations>>
    /\ PipelineFrame

\* file_summary = await qwen_vl_predict(...)
SummaryCall(d) ==
    /\ pc = "pool"
    /\ w[d].stage = "summary"
    /\ \E q \in QwenResults(SummaryReply) :
         LET r == q.res
         IN  IF r.kind = "raise"
             THEN Fail(d)
             ELSE /\ w' = [w EXCEPT ![d].stage = "context",
                                    ![d].file_summary = r.text,
                                    ![d].failedCall = q.failed]
                  /\ UNCHANGED <<results, log, invocations>>
    /\ PipelineFrame

\* a gate that lets every task in
GateAlwaysFree(d) == TRUE

\* the semaphore of the invocation has a free slot: fewer than its width of
\* the context tasks are between acquire and release
GateFree(d) == w[d].started - Len(w[d].completions) < GateWidth

\* async with semaphore: the next context task enters the gate
CtxStart(d) ==
    /\ pc = "pool"
    /\ w[d].stage = "context"
    /\ w[d].started < Len(w[d].norm) - 1
    /\ GateFree(d)
    /\ w' = [w EXCEPT ![d].started = @ + 1,
                       ![d].prompts = @ \cup
                           {ContextPrompt(w[d].norm, w[d].file_summary, w[d].started)}]
    /\ UNCHANGED <<results, log, invocations>>
    /\ PipelineFrame

\* a context call that is in flight finishes
CtxComplete(d, p) ==
    /\ pc = "pool"
    /\ w[d].stage = "context"
    /\ p \in 1..w[d].started
    /\ \A c \in Range(w[d].completions) : c.page # p
    /\ \E q \in QwenResults(CtxReply(p)) :
         LET r == q.res
         IN  IF r.kind = "raise"
             THEN Fail(d)
             ELSE /\ w' = [w EXCEPT ![d].completions = Append(@, [page |-> p, text |-> r.text]),
                                    ![d].failedCall = @ \/ q.failed]
                  /\ UNCHANGED <<results, log, invocations>>
    /\ PipelineFrame

\* gather returns; results are assembled and handed to generate_embeddings
AssembleContent(d) ==
    /\ pc = "pool"
    /\ w[d].stage = "context"
    /\ Len(w[d].completions) = Len(w[d].norm) - 1
    /\ LET context_list == gather(w[d].completions, Len(w[d].norm) - 1)
       IN  w' = [w EXCEPT ![d].stage = "dense",
                          ![d].processed_content =
                              Assemble(w[d].norm, w[d].file_summary, context_list)]
    /\ UNCHANGED <<results, log, invocations>>
    /\ PipelineFrame

\* embeddings = await get_embedding(processed_content)
DenseCall(d) ==
    /\ pc = "pool"
    /\ w[d].stage = "dense"
    /\ \E r \in DenseResults(w[d].processed_content) :
             IF r.kind = "raise"
             THEN Fail(d)
             ELSE /\ w' = [w EXCEPT ![d].stage = "sparse", ![d].embeddings = r.value]
                  /\ UNCHANGED <<results, log, invocations>>
    /\ PipelineFrame

\* sparse_embeddings = await get_sparse_embedding(processed_content); return result
SparseCall(d) ==
    /\ pc = "pool"
    /\ w[d].stage = "sparse"
    /\ \E r \in SparseResults(w[d].processed_content) :
             CASE r.kind = "return" -> Return(d, Record(d, w[d], r.value), "success")
               [] r.kind = "raise_timeout" -> OnTimeoutError(d, "sparse_timeout")
               [] r.kind = "raise_client" -> Return(d, None, "sparse_error")
               [] OTHER -> Fail(d)
    /\ PipelineFrame

\* asyncio.wait_for(..., timeout=timeout) cuts the invocation off
WallClockTimeout(d) ==
    /\ pc = "pool"
    /\ Suspended(d)
    /\ OnTimeoutError(d, "timeout")
    /\ PipelineFrame

----------------------------------------------------------------------------
(* main(): the loop over the batches and the part files *)

MainFrame == UNCHANGED <<peer, libcall, content, max_workers, run, prevEnd, startFile, logPart, invocations, log>>

\* nothing is on record about the pipelines of a part
NoLog ==
    /\ invocations' = [d \in DOMAIN content |-> 0]
    /\ log' = [d \in DOMAIN content |-> <<>>]

\* the volatile state of main between two batches
NoBatch ==
    /\ results' = <<>>
    /\ batch_data' = <<>>
    /\ nextTask' = 0
    /\ w' = [d \in DOMAIN content |-> IdleW]

\* a main() that never looks for the part file
SkipsBatchNever(f) == FALSE

\* a main() that skips only the files it can load
SkipsBatchIfComplete(f) == f.state = "complete"

\* a main() that runs a batch again when its part file holds no record
SkipsBatchIfNonEmpty(f) == Exists(f) /\ f.data # <<>>

\* part_file.exists(): the decision to skip the batch
SkipsBatch(f) == Exists(f)

\* lines 300-307: the part file exists; json.load raises on an incomplete file
SkipBatch ==
    /\ pc = "loop"
    /\ i < Len(tasks)
    /\ SkipsBatch(file[part_number])
    /\ IF file[part_number].state = "complete"
       THEN /\ all_results' = Update(all_results, file[part_number].data)
            /\ part_number' = part_number + 1
            /\ i' = i + BatchSize
            /\ pc' = "loop"
       ELSE /\ pc' = "failed"
            /\ UNCHANGED <<all_results, part_number, i>>
    /\ logPart' = 0
    /\ NoLog
    /\ UNCHANGED <<file, opens, results, batch_data, nextTask, w>>
    /\ UNCHANGED <<peer, libcall, content, max_workers, run, prevEnd, startFile>>

\* lines 309-316: the batch starts running in a new pool
StartBatch ==
    /\ pc = "loop"
    /\ i < Len(tasks)
    /\ ~SkipsBatch(file[part_number])
    /\ pc' = "pool"
    /\ NoBatch
    /\ logPart' = part_number
    /\ NoLog
    /\ UNCHANGED <<file, opens, i, part_number, all_results>>
    /\ UNCHANGED <<peer, libcall, content, max_workers, run, prevEnd, startFile>>

\* a collection loop that stops at the first failed document
RECURSIVE SuccessfulUntilFailure(_)
SuccessfulUntilFailure(rs) ==
    IF rs = <<>> \/ Head(rs)[2] = None THEN <<>>
    ELSE <<Head(rs)>> \o SuccessfulUntilFailure(Tail(rs))

\* the successful (key, result) pairs of results, in order
RECURSIVE Successful(_)
Successful(rs) ==
    IF rs = <<>> THEN <<>>
    ELSE IF Head(rs)[2] # None THEN <<Head(rs)>> \o Successful(Tail(rs))
    ELSE Successful(Tail(rs))

\* a loop over the pool's results that ends with the first result
BatchFinishedEarly == Len(results) >= 1

\* imap_unordered is exhausted: every task of the batch has delivered its result
BatchFinished == Len(results) = Len(batch_tasks)

\* lines 324-329: batch_data and all_results take the successful results
CollectBatch ==
    /\ pc = "pool"
    /\ BatchFinished
    /\ batch_data' = Successful(results)
    /\ all_results' = Update(all_results, Successful(results))
    /\ pc' = "save"
    /\ UNCHANGED <<file, opens, i, part_number, results, nextTask, w>>
    /\ MainFrame

\* open(part_file, 'w'): creates the empty file, or raises
OpenPartFile ==
    /\ pc = "save"
    /\ \E ok \in BOOLEAN :
         IF ok
         THEN /\ file' = [file EXCEPT ![part_number] = [state |-> "partial", data |-> <<>>]]
              /\ opens' = [opens EXCEPT ![part_number] = @ + 1]
              /\ pc' = "dump"
         ELSE /\ pc' = "failed"
              /\ UNCHANGED <<file, opens>>
    /\ UNCHANGED <<i, part_number, all_results, results, batch_data, nextTask, w>>
    /\ MainFrame

\* json.dump writes the next record of batch_data, or the write raises
DumpRecord ==
    /\ pc = "dump"
    /\ Len(file[part_number].data) < Len(batch_data)
    /\ \E ok \in BOOLEAN :
         IF ok
         THEN /\ file' = [file EXCEPT ![part_number].data =
                              Append(@, batch_data[Len(@) + 1])]
              /\ pc' = "dump"
         ELSE /\ pc' = "failed"
              /\ file' = file
    /\ UNCHANGED <<opens, i, part_number, all_results, results, batch_data, nextTask, w>>
    /\ MainFrame

\* the closing brace is written and the file is closed; part_number += 1
ClosePartFile ==
    /\ pc = "dump"
    /\ Len(file[part_number].data) = Len(batch_data)
    /\ \E ok \in BOOLEAN :
         IF ok
         THEN /\ file' = [file EXCEPT ![part_number].state = "complete"]
              /\ part_number' = part_number + 1
              /\ i' = i + BatchSize
              /\ pc' = "loop"
              /\ NoBatch
         ELSE /\ pc' = "failed"
              /\ UNCHANGED <<file, part_number, i, results, batch_data, nextTask, w>>
    /\ UNCHANGED <<opens, all_results>>
    /\ MainFrame

\* the loop is exhausted: "Processing completed"
Finish ==
    /\ pc = "loop"
    /\ i >= Len(tasks)
    /\ pc' = "done"
    /\ UNCHANGED <<file, opens, i, part_number, all_results, results, batch_data, nextTask, w>>
    /\ MainFrame

Running == pc \in {"loop", "pool", "save", "dump"}

\* the process is killed: its memory is gone and with it what this run
\* counted and found at its start; the files stay as they are
Crash ==
    /\ Running
    /\ pc' = "crashed"
    /\ NoBatch
    /\ all_results' = EmptyDict
    /\ i' = 0
    /\ part_number' = 1
    /\ startFile' = file
    /\ logPart' = 0
    /\ NoLog
    /\ UNCHANGED <<peer, libcall, content, max_workers, file, opens, run, prevEnd>>

\* main() is started again on the same input and checkpoint directory
Rerun ==
    /\ pc \in {"done", "failed", "crashed"}
    /\ run < MaxRuns
    /\ run' = run + 1
    /\ prevEnd' = pc
    /\ startFile' = file
    /\ pc' = "loop"
    /\ i' = 0
    /\ part_number' = 1
    /\ all_results' = EmptyDict
    /\ NoBatch
    /\ logPart' = 0
    /\ NoLog
    /\ UNCHANGED <<peer, libcall, content, max_workers, file, opens>>

----------------------------------------------------------------------------
(* Specifications *)

\* the state of main() at the head of its loop, over the input c on a
\* machine of cpu processors
Loaded(c, cpu) ==
    /\ content = c
    /\ max_workers = Min({cpu, MaxWorkers})
    /\ file = [b \in 1..((Cardinality(DOMAIN c) + BatchSize - 1) \div BatchSize) |-> AbsentFile]
    /\ startFile = file
    /\ opens = [b \in DOMAIN file |-> 0]
    /\ run = 1
    /\ prevEnd = "none"
    /\ pc = "loop"
    /\ i = 0
    /\ part_number = 1
    /\ all_results = EmptyDict
    /\ results = <<>>
    /\ batch_data = <<>>
    /\ nextTask = 0
    /\ w = [d \in DOMAIN c |-> IdleW]
    /\ logPart = 0
    /\ invocations = [d \in DOMAIN c |-> 0]
    /\ log = [d \in DOMAIN c |-> <<>>]

\* main() starts; no library function is called on its own, and no second
\* run is on the same checkpoint directory
Start(c, cpu) == Loaded(c, cpu) /\ libcall = NoCall /\ peer = NoPeer

\* inputs of the batch specification: the first document has two pages, the
\* others one page, and in one of the inputs the last has none
Inputs ==
    {[d \in 1..NumDocs |->
        Document(IF d = z THEN 0 ELSE IF d = 1 THEN 2 ELSE 1)] : z \in {0, NumDocs}}

Init == \E c \in Inputs : \E cpu \in 1..(MaxWorkers + 1) : Start(c, cpu)

Next ==
    \/ SkipBatch
    \/ StartBatch
    \/ Dispatch
    \/ \E d \in DOMAIN content : MetadataCall(d, ShapedReplies)
    \/ \E d \in DOMAIN content : SummaryCall(d)
    \/ \E d \in DOMAIN content : CtxStart(d)
    \/ \E d \in DOMAIN content : \E p \in 1..Len(content[d]) : CtxComplete(d, p)
    \/ \E d \in DOMAIN content : AssembleContent(d)
    \/ \E d \in DOMAIN content : DenseCall(d)
    \/ \E d \in DOMAIN content : SparseCall(d)
    \/ \E d \in DOMAIN content : WallClockTimeout(d)
    \/ CollectBatch
    \/ OpenPartFile
    \/ DumpRecord
    \/ ClosePartFile
    \/ Finish
    \/ Crash
    \/ Rerun

Spec == Init /\ [][Next]_vars

\* one document of 0..DocPages pages, one uninterrupted run on one processor
DocInit == \E n \in 0..DocPages : Start([d \in {1} |-> Document(n)], 1)

DocNext ==
    \/ StartBatch
    \/ Dispatch
    \/ \E d \in DOMAIN content : MetadataCall(d, MetadataReplies)
    \/ \E d \in DOMAIN content : SummaryCall(d)
    \/ \E d \in DOMAIN content : CtxStart(d)
    \/ \E d \in DOMAIN content : \E p \in 1..Len(content[d]) : CtxComplete(d, p)
    \/ \E d \in DOMAIN content : AssembleContent(d)
    \/ \E d \in DOMAIN content : DenseCall(d)
    \/ \E d \in DOMAIN content : SparseCall(d)
    \/ \E d \in DOMAIN content : WallClockTimeout(d)
    \/ CollectBatch
    \/ OpenPartFile
    \/ DumpRecord
    \/ ClosePartFile
    \/ Finish

DocSpec == DocInit /\ [][DocNext]_vars

\* content[0] of a document without pages raises without waiting for anything
RaiseAtOnce(d) == Len(content[d]) = 0 /\ MetadataCall(d, ShapedReplies)

\* One uninterrupted run over the inputs of the batch specification (LiveNext
\* below, the steps of Next without Crash, Rerun and SkipBatch), under fair
\* scheduling: main and the pool take their steps, the timer of
\* asyncio.wait_for fires, and code that waits for nothing runs. Nothing is
\* assumed of the remote calls: they may never answer.
LiveFairness ==
    /\ WF_vars(StartBatch)
    /\ WF_vars(Dispatch)
    /\ WF_vars(CollectBatch)
    /\ WF_vars(OpenPartFile)
    /\ WF_vars(DumpRecord)
    /\ WF_vars(ClosePartFile)
    /\ WF_vars(Finish)
    /\ \A d \in 1..NumDocs : WF_vars(WallClockTimeout(d)) /\ WF_vars(RaiseAtOnce(d))

LiveNext ==
    \/ StartBatch
    \/ Dispatch
    \/ \E d \in DOMAIN content : MetadataCall(d, ShapedReplies)
    \/ \E d \in DOMAIN content : SummaryCall(d)
    \/ \E d \in DOMAIN content : CtxStart(d)
    \/ \E d \in DOMAIN content : \E p \in 1..Len(content[d]) : CtxComplete(d, p)
    \/ \E d \in DOMAIN content : AssembleContent(d)
    \/ \E d \in DOMAIN content : DenseCall(d)
    \/ \E d \in DOMAIN content : SparseCall(d)
    \/ \E d \in DOMAIN content : WallClockTimeout(d)
    \/ CollectBatch
    \/ OpenPartFile
    \/ DumpRecord
    \/ ClosePartFile
    \/ Finish

LiveSpec == Init /\ [][LiveNext]_vars /\ LiveFairness

----------------------------------------------------------------------------
(* Two runs of main() at once on the same input and checkpoint directory *)

\* the second run at the head of its loop; ran and wrote are the parts it
\* has handed to a pool and the part files it has opened for writing
PeerLoaded == [NoPeer EXCEPT !.pc = "loop"]

\* everything of the first run and of the library calls stays as it is
PeerFrame ==
    UNCHANGED <<libcall, content, max_workers, run, prevEnd, startFile, opens, pc, i,
                part_number, all_results, results, batch_data, nextTask, w, logPart,
                invocations, log>>

\* what a pool of the second run can deliver for the keys of a part: each
\* document fails or yields its record (the pipelines are those of the first
\* run; what is in a record plays no part in what two runs do to a file)
PoolOutcomes(keys) ==
    {[k \in 1..Cardinality(S) |-> <<sorted(S)[k], Record(sorted(S)[k], IdleW, <<>>)>>] :
        S \in SUBSET keys}

\* lines 300-307 in the second run: the part file exists
PeerSkipBatch ==
    /\ peer.pc = "loop"
    /\ peer.i < Len(tasks)
    /\ SkipsBatch(file[peer.part_number])
    /\ peer' = IF file[peer.part_number].state = "complete"
               THEN [peer EXCEPT !.part_number = @ + 1, !.i = @ + BatchSize]
               ELSE [peer EXCEPT !.pc = "failed"]
    /\ file' = file
    /\ PeerFrame

\* lines 309-316 in the second run: the part file is absent, the batch goes to a pool
PeerStartBatch ==
    /\ peer.pc = "loop"
    /\ peer.i < Len(tasks)
    /\ ~SkipsBatch(file[peer.part_number])
    /\ peer' = [peer EXCEPT !.pc = "pool", !.ran = @ \cup {peer.part_number}]
    /\ file' = file
    /\ PeerFrame

\* lines 317-329 in the second run: its pool has delivered every result
PeerCollectBatch ==
    /\ peer.pc = "pool"
    /\ \E data \in PoolOutcomes(PartKeys(peer.part_number)) :
         peer' = [peer EXCEPT !.pc = "save", !.batch_data = data]
    /\ file' = file
    /\ PeerFrame

\* line 334 in the second run: open(part_file, 'w') creates or truncates the file
PeerOpenPartFile ==
    /\ peer.pc = "save"
    /\ file' = [file EXCEPT ![peer.part_number] = [state |-> "partial", data |-> <<>>]]
    /\ peer' = [peer EXCEPT !.pc = "dump", !.wrote = @ \cup {peer.part_number}]
    /\ PeerFrame

\* lines 335-338 in the second run: json.dump writes batch_data and the file is closed
PeerClosePartFile ==
    /\ peer.pc = "dump"
    /\ file' = [file EXCEPT ![peer.part_number] =
                    [state |-> "complete", data |-> peer.batch_data]]
    /\ peer' = [peer EXCEPT !.pc = "loop", !.part_number = @ + 1, !.i = @ + BatchSize,
                            !.batch_data = <<>>]
    /\ PeerFrame

\* the loop of the second run is exhausted
PeerFinish ==
    /\ peer.pc = "loop"
    /\ peer.i >= Len(tasks)
    /\ peer' = [peer EXCEPT !.pc = "done"]
    /\ file' = file
    /\ PeerFrame

\* two runs are started together over a document of two pages and an empty
\* checkpoint directory
TwoRunsInit ==
    /\ Loaded([d \in {1} |-> Document(DocPages)], 1)
    /\ libcall = NoCall
    /\ peer = PeerLoaded

TwoRunsNext ==
    \/ SkipBatch
    \/ StartBatch
    \/ Dispatch
    \/ \E d \in DOMAIN content : MetadataCall(d, MetadataReplies)
    \/ \E d \in DOMAIN content : SummaryCall(d)
    \/ \E d \in DOMAIN content : CtxStart(d)
    \/ \E d \in DOMAIN content : \E p \in 1..Len(content[d]) : CtxComplete(d, p)
    \/ \E d \in DOMAIN content : AssembleContent(d)
    \/ \E d \in DOMAIN content : DenseCall(d)
    \/ \E d \in DOMAIN content : SparseCall(d)
    \/ \E d \in DOMAIN content : WallClockTimeout(d)
    \/ CollectBatch
    \/ OpenPartFile
    \/ DumpRecord
    \/ ClosePartFile
    \/ Finish
    \/ PeerSkipBatch
    \/ PeerStartBatch
    \/ PeerCollectBatch
    \/ PeerOpenPartFile
    \/ PeerClosePartFile
    \/ PeerFinish

TwoRunsSpec == TwoRunsInit /\ [][TwoRunsNext]_vars

----------------------------------------------------------------------------
(* The OCR cache: utils/ocr.py *)

\* the MD5 digests of the bytes of the PDF files
Hashes == 1..NumHashes

\* a JSON object the OCR service answers with: its keys, and the page texts
\* under "text"
OcrResult(pages) == [keys |-> {"text"}, text |-> pages]

\* the answer {"error": ...}
OcrError == [keys |-> {"error"}, text |-> <<>>]

OcrResults == {OcrResult(<<"p0">>), OcrResult(<<"p0", "p1">>)}

\* what the POST to the service comes to: a JSON body, or an exception of
\* the request
ServiceOutcomes ==
    {[kind |-> "json", r |-> r] : r \in OcrResults \cup {OcrError}}
        \cup {[kind |-> "raise", r |-> OcrError]}

\* json.dumps(r, ensure_ascii=False): the text of the object, a string that
\* is never empty
json_dumps(r) == <<"{">> \o <<r>> \o <<"}">>

\* json.loads of such a text
json_loads(text) == text[2]

\* the key ocr_results:ocr_<md5>
OcrKey(pdf_md5) == pdf_md5

\* the states of Redis: under some of the keys, the text of a result
OcrCaches ==
    UNION {[K -> {json_dumps(r) : r \in OcrResults}] : K \in SUBSET {OcrKey(h) : h \in Hashes}}

\* redis_client.get(key): the value, or None for a key that is not there
redis_get(redis, key) == IF key \in DOMAIN redis THEN redis[key] ELSE <<>>

\* redis_client.client.set(key, value)
redis_set(redis, key, value) ==
    [k \in DOMAIN redis \cup {key} |-> IF k = key THEN value ELSE redis[k]]

\* a call that never looks the digest up
UsesCacheNever(file_suffix, override) == FALSE

\* lines 28, 33: the cache is looked up for a PDF unless override is set
UsesCache(file_suffix, override) == file_suffix = "pdf" /\ ~override

\* get_ocr on a file of the digest md5: what it returns or raises, whether it
\* posted to the service, and Redis after the call
get_ocr(redis, md5, file_suffix, override, service) ==
    LET pdf_md5 == IF file_suffix = "pdf" THEN <<md5>> ELSE <<>>
        cached_result == redis_get(redis, OcrKey(md5))
    IN  IF UsesCache(file_suffix, override) /\ pdf_md5 # <<>> /\ cached_result # <<>>
        THEN [kind |-> "return", value |-> json_loads(cached_result), posted |-> FALSE,
              redis |-> redis]
        ELSE IF service.kind = "raise" \/ "error" \in service.r.keys
        THEN [kind |-> "raise", value |-> OcrError, posted |-> TRUE, redis |-> redis]
        ELSE [kind |-> "return", value |-> service.r, posted |-> TRUE,
              redis |-> IF pdf_md5 # <<>>
                        THEN redis_set(redis, OcrKey(md5), json_dumps(service.r))
                        ELSE redis]

----------------------------------------------------------------------------
(* The OCR batch: ocr_all_pdfs.py *)

max_page_count == 100

\* the PDF files of the directory, in the order of os.walk
Paths == 1..NumFiles

\* a file: the digest of its bytes (0: the file cannot be read) and the
\* number of its pages
PdfFiles == [md5 : {0} \cup Hashes, page_count : {max_page_count, max_page_count + 1}]

\* what process_new_files runs in: all is well, Redis does not answer the
\* ping, or config.ocr_url is not set
Environments == {"ok", "no_redis", "no_ocr_url"}

\* a scan that takes every file it could hash for unprocessed
find_unprocessed_filesIgnoringRedis(files, redis) ==
    sorted({f \in DOMAIN files : files[f].md5 # 0})

\* find_unprocessed_files: the files that have a digest and whose digest is
\* not among the keys ocr_results:ocr_* of Redis, in the order of the list
find_unprocessed_files(files, redis) ==
    sorted({f \in DOMAIN files :
               files[f].md5 # 0 /\ OcrKey(files[f].md5) \notin DOMAIN redis})

\* process_pdf_file: the status of the result dict and Redis after it
process_pdf_file(pdf, redis, service) ==
    IF pdf.page_count > max_page_count
    THEN [status |-> "skipped", redis |-> redis]
    ELSE LET r == get_ocr(redis, pdf.md5, "pdf", FALSE, service)
         IN  [status |-> IF r.kind = "return" THEN "success" ELSE "error", redis |-> r.redis]

\* the number of tasks whose result has the status st
CountStatus(results_of, status, st) ==
    Cardinality({k \in 1..Len(results_of) : status[results_of[k]] = st})

\* process_new_files is called on a directory and a Redis
CalledProcessNewFiles(files, env, redis) ==
    [fn |-> "process_new_files", arg |-> [files |-> files, env |-> env, redis |-> redis],
     pc |-> "called", out |-> None, redis |-> redis, new_files |-> <<>>, tasks |-> <<>>,
     status |-> [f \in DOMAIN files |-> "none"]]

----------------------------------------------------------------------------
(* De-duplication of the local store: func/cleanup_pdfs.py *)

\* the regular files under the directory, in the order of rglob
StoredPaths == 1..NumStoredFiles

\* a file: the digest of its bytes, whether it lies in a directory named
\* 国家医疗保障局, and whether it can be opened for reading
StoredFiles == [md5 : Hashes, level1 : BOOLEAN, readable : BOOLEAN]

\* get_file_md5: the digest, or None (0) when reading the file raises
get_file_md5(stored) == IF stored.readable THEN stored.md5 ELSE 0

\* md5_to_files[h]: the files whose digest was computed as h, in the order
\* they were found
md5_to_files(files, h) == sorted({f \in DOMAIN files : get_file_md5(files[f]) = h})

\* a choice that keeps the first file found, wherever it lies
file_to_keepFirst(files, duplicate_files) == duplicate_files[1]

\* lines 60-65, 79-80: the file of a duplicate group that is kept
file_to_keep(files, duplicate_files) ==
    LET level1_files == SelectSeq(duplicate_files, LAMBDA f : files[f].level1)
    IN  IF level1_files # <<>> THEN level1_files[1] ELSE duplicate_files[1]

\* cleanup_duplicate_files_keep_level1 on the files, where os.remove raises
\* for the files of fails: the files that remain and the two counters
cleanup_duplicate_files_keep_level1(files, fails) ==
    LET duplicate_groups == {h \in Hashes : Len(md5_to_files(files, h)) > 1}
        files_to_remove == UNION {Range(md5_to_files(files, h))
                                     \ {file_to_keep(files, md5_to_files(files, h))} :
                                  h \in duplicate_groups}
        unhashed == {f \in DOMAIN files : get_file_md5(files[f]) = 0}
    IN  [remaining |-> DOMAIN files \ (files_to_remove \ fails),
         removed_count |-> Cardinality(files_to_remove \ fails),
         error_count |-> Cardinality(unhashed) + Cardinality(files_to_remove \cap fails),
         remove_errors |-> files_to_remove \cap fails]

----------------------------------------------------------------------------
(* The library functions, each called on its own *)

\* the classes of characters of a text sample
Characters == {"zh", "en", "sp", "nl", "pu", "ot"}

\* the text samples given to detect_language
LangSamples == UNION {[1..n -> Characters] : n \in 0..SampleLen}

\* the text samples given to LangDetector.detect
DetectSamples == UNION {[1..n -> Characters] : n \in 0..DetectLen}

\* n consecutive copies of unit
Rep(unit, n) == [k \in 1..(n * Len(unit)) |-> unit[((k - 1) % Len(unit)) + 1]]

\* the units repeated in a page: a word, two characters, a line, a tag
RepUnits == {<<"ERR">>, <<"a", "b">>, <<"ERR", "\n">>, <<"<td>">>}

\* the text around the repetitions
Margins == {<<>>, <<"x">>}

\* a page with n repetitions of unit between pre and post
RepSample(pre, unit, n, post) == pre \o Rep(unit, n) \o post

\* short pages of table tags, text and blanks
TagSamples == UNION {[1..n -> TableTags \cup {"x", " "}] : n \in 0..2}

\* the page texts given to the normalization
PageSamples ==
    {RepSample(pre, unit, n, post) :
        pre \in Margins, unit \in RepUnits, n \in 0..MaxReps, post \in Margins}
      \cup TagSamples

\* the components of the vectors of the dense backend: 0.0, the smallest
\* magnitude, and whole numbers up to MaxComponent, of either sign
Components ==
    {0, 1, -1} \cup {c * Unit : c \in 1..MaxComponent} \cup {-(c * Unit) : c \in 1..MaxComponent}

\* x.embedding of one item of response.data
BackendVectors == [1..EmbedDim -> Components]

\* the lists of strings given to the embedding functions
TextLists == {<<>>, <<<<"p0">>>>, <<<<"<td>", "p0">>, <<"p1">>>>}

\* fn is called with arg and has not run yet
Called(fn, arg) == [fn |-> fn, arg |-> arg, pc |-> "called", out |-> None]

\* qwen_vl_local_list, by position
qwen_vl_local_list == 1..NumBackends

\* qwen_vl_predict is called: available_models is a copy of the list, no
\* backend has been tried; does[m] is what backend m does with a request
CalledQwen(reply, does) ==
    [fn |-> "qwen_vl_predict", arg |-> [reply |-> reply, does |-> does], pc |-> "called",
     out |-> None, available_models |-> qwen_vl_local_list, tried |-> <<>>]

\* get_ocr is about to be called on a Redis in the state redis; calls is the
\* record of the calls made so far
CalledOcr(redis) ==
    [fn |-> "get_ocr", arg |-> <<>>, pc |-> "called", out |-> None, redis |-> redis,
     calls |-> <<>>]

\* no document is loaded; one library function is called with one input
LibInit ==
    /\ Loaded(<<>>, 1)
    /\ peer = NoPeer
    /\ \/ \E text \in LangSamples : libcall = Called("detect_language", text)
       \/ \E text \in DetectSamples, unknownUseDefault \in BOOLEAN :
             libcall = Called("detect", [text |-> text,
                                         unknownUseDefault |-> unknownUseDefault])
       \/ \E text \in PageSamples : libcall = Called("normalize", text)
       \/ \E redis \in OcrCaches : libcall = CalledOcr(redis)
       \/ \E x \in BackendVectors : libcall = Called("normalize_embedding", x)
       \/ \E text \in TextLists, outs \in SparseRuns :
             libcall = Called("get_sparse_embedding", [text |-> text, outs |-> outs])
       \/ \E text \in TextLists, outcome \in {"ok", "error"}, outs \in SparseRuns :
             libcall = Called("generate_embeddings",
                              [text |-> text, outcome |-> outcome, outs |-> outs])
       \/ \E reply \in {SummaryReply}, does \in [qwen_vl_local_list -> BackendOutcomes] :
             libcall = CalledQwen(reply, does)

LibFrame ==
    UNCHANGED <<peer, content, max_workers, file, run, prevEnd, startFile, opens, pc, i, part_number,
                all_results, results, batch_data, nextTask, w, logPart, invocations, log>>

\* detect_language(text) returns
DetectLanguage ==
    /\ libcall.fn = "detect_language"
    /\ libcall.pc = "called"
    /\ libcall' = [libcall EXCEPT !.pc = "done", !.out = detect_language(libcall.arg)]
    /\ LibFrame

\* one element of the list comprehension of process_content line 73
NormalizeText ==
    /\ libcall.fn = "normalize"
    /\ libcall.pc = "called"
    /\ libcall' = [libcall EXCEPT !.pc = "done", !.out = NormalizePage(libcall.arg)]
    /\ LibFrame

\* normalize_embedding(x.embedding) of get_embedding line 37
NormalizeEmbedding ==
    /\ libcall.fn = "normalize_embedding"
    /\ libcall.pc = "called"
    /\ libcall' = [libcall EXCEPT !.pc = "done", !.out = normalize_embedding(libcall.arg)]
    /\ LibFrame

\* get_sparse_embedding(text) comes to its end; outs[k] is what the sparse
\* backend does with the k-th request
GetSparseEmbedding ==
    /\ libcall.fn = "get_sparse_embedding"
    /\ libcall.pc = "called"
    /\ libcall' = [libcall EXCEPT !.pc = "done",
                       !.out = get_sparse_embedding(libcall.arg.text, libcall.arg.outs, 0)]
    /\ LibFrame

\* generate_embeddings(processed_content) comes to its end; outcome is what
\* the dense backend does with a request, outs what the sparse backend does
GenerateEmbeddings ==
    /\ libcall.fn = "generate_embeddings"
    /\ libcall.pc = "called"
    /\ libcall' = [libcall EXCEPT !.pc = "done",
                       !.out = generate_embeddings(libcall.arg.text, libcall.arg.outcome,
                                                   libcall.arg.outs)]
    /\ LibFrame

\* LangDetector().detect(text, unknownUseDefault=...) returns
Detect ==
    /\ libcall.fn = "detect"
    /\ libcall.pc = "called"
    /\ libcall' = [libcall EXCEPT !.pc = "done",
                       !.out = IF libcall.arg.unknownUseDefault
                               THEN detect(libcall.arg.text)
                               ELSE detectKeepingUnknown(libcall.arg.text)]
    /\ LibFrame

\* one call of get_ocr from its first line to its return or exception; the
\* next call finds Redis as this one left it
GetOcr ==
    /\ libcall.fn = "get_ocr"
    /\ Len(libcall.calls) < MaxOcrCalls
    /\ \E md5 \in Hashes, file_suffix \in {"pdf", "png"}, override \in BOOLEAN,
          service \in ServiceOutcomes :
         LET out == get_ocr(libcall.redis, md5, file_suffix, override, service)
         IN  libcall' = [libcall EXCEPT
                 !.redis = out.redis,
                 !.calls = Append(@, [md5 |-> md5, file_suffix |-> file_suffix,
                                      override |-> override, service |-> service,
                                      before |-> libcall.redis, kind |-> out.kind,
                                      value |-> out.value, posted |-> out.posted,
                                      after |-> out.redis])]
    /\ LibFrame

\* a failover that keeps the backend that raised among the candidates
KeepModel(available_models, model) == available_models

\* available_models.remove(model)
RemoveModel(available_models, model) == available_models \ {model}

\* one round of the loop of qwen_vl_predict: model = random.choice(available_models)
\* is called; its result is returned, or it raises, is removed, and the
\* exception is re-raised if no backend is left
QwenTry(model) ==
    /\ libcall.fn = "qwen_vl_predict"
    /\ libcall.pc = "called"
    /\ model \in libcall.available_models
    /\ LET r == ModelCall(libcall.arg.does[model], libcall.arg.reply)
           left == RemoveModel(libcall.available_models, model)
       IN  libcall' =
             IF r.kind = "return"
             THEN [libcall EXCEPT !.pc = "done", !.out = r, !.tried = Append(@, model)]
             ELSE [libcall EXCEPT !.pc = IF left = {} THEN "done" ELSE "called",
                                  !.out = IF left = {} THEN r ELSE None,
                                  !.available_models = left,
                                  !.tried = Append(@, model)]
    /\ LibFrame

LibNext ==
    \/ \E model \in qwen_vl_local_list : QwenTry(model)
    \/ DetectLanguage
    \/ Detect
    \/ GetOcr
    \/ NormalizeText
    \/ NormalizeEmbedding
    \/ GetSparseEmbedding
    \/ GenerateEmbeddings

LibSpec == LibInit /\ [][LibNext]_vars

----------------------------------------------------------------------------
(* process_new_files, called on its own *)

OcrBatchInit ==
    /\ Loaded(<<>>, 1)
    /\ peer = NoPeer
    /\ \E files \in [Paths -> PdfFiles], env \in Environments, redis \in OcrCaches :
         libcall = CalledProcessNewFiles(files, env, redis)

\* lines 194-244: the early returns, the scan, and one task per new file
FindUnprocessedFiles ==
    /\ libcall.fn = "process_new_files"
    /\ libcall.pc = "called"
    /\ LET new_files == IF libcall.arg.env = "no_redis" THEN <<>>
                        ELSE find_unprocessed_files(libcall.arg.files, libcall.redis)
       IN  libcall' =
             IF new_files = <<>> \/ libcall.arg.env = "no_ocr_url"
             THEN [libcall EXCEPT !.pc = "done", !.new_files = new_files]
             ELSE [libcall EXCEPT !.pc = "gather", !.new_files = new_files,
                                  !.tasks = new_files,
                                  !.status = [f \in DOMAIN @ |->
                                                 IF f \in Range(new_files) THEN "pending"
                                                 ELSE "none"]]
    /\ LibFrame

\* one task of the gather runs process_pdf_file to its end
ProcessPdfFile(f) ==
    /\ libcall.fn = "process_new_files"
    /\ libcall.pc = "gather"
    /\ libcall.status[f] = "pending"
    /\ \E service \in ServiceOutcomes :
         LET r == process_pdf_file(libcall.arg.files[f], libcall.redis, service)
         IN  libcall' = [libcall EXCEPT !.status[f] = r.status, !.redis = r.redis]
    /\ LibFrame

\* lines 248-272: the gather is over and the results are counted
CountResults ==
    /\ libcall.fn = "process_new_files"
    /\ libcall.pc = "gather"
    /\ \A f \in Range(libcall.tasks) : libcall.status[f] # "pending"
    /\ libcall' = [libcall EXCEPT
           !.pc = "done",
           !.out = [successful |-> CountStatus(libcall.tasks, libcall.status, "success"),
                    skipped |-> CountStatus(libcall.tasks, libcall.status, "skipped"),
                    failed |-> Len(libcall.tasks)
                                 - CountStatus(libcall.tasks, libcall.status, "success")
                                 - CountStatus(libcall.tasks, libcall.status, "skipped")]]
    /\ LibFrame

OcrBatchNext ==
    \/ FindUnprocessedFiles
    \/ \E f \in Paths : ProcessPdfFile(f)
    \/ CountResults

OcrBatchSpec == OcrBatchInit /\ [][OcrBatchNext]_vars

----------------------------------------------------------------------------
(* cleanup_duplicate_files_keep_level1, called on its own *)

CleanupInit ==
    /\ Loaded(<<>>, 1)
    /\ peer = NoPeer
    /\ \E files \in [StoredPaths -> StoredFiles] :
         libcall = Called("cleanup_duplicate_files_keep_level1", files)

\* the call runs to its end; os.remove raises for the files of fails
CleanupDuplicateFiles ==
    /\ libcall.fn = "cleanup_duplicate_files_keep_level1"
    /\ libcall.pc = "called"
    /\ \E fails \in SUBSET StoredPaths :
         libcall' = [libcall EXCEPT
                        !.pc = "done",
                        !.out = cleanup_duplicate_files_keep_level1(libcall.arg, fails)]
    /\ LibFrame

CleanupNext == CleanupDuplicateFiles

CleanupSpec == CleanupInit /\ [][CleanupNext]_vars

----------------------------------------------------------------------------
(* Vocabulary of the properties *)

Last(s) == s[Len(s)]

\* the keys of a sequence of (key, record) pairs
Keys(pairs) == {pairs[k][1] : k \in 1..Len(pairs)}

\* the part a key belongs to
PartOf(d) == CHOOSE b \in DOMAIN file : d \in PartKeys(b)

\* the part file was produced by this run
WrittenThisRun(b) == Exists(file[b]) /\ ~Exists(startFile[b])

\* the outcomes of the documents of part b are on record, and so is its file
OnRecord(b) == logPart = b /\ WrittenThisRun(b)

\* every invocation of the pipeline started for d has ended
Terminal(d) == log[d] # <<>> /\ Len(log[d]) = invocations[d] /\ ~InFlight(d)

\* the documents of part b whose pipeline returned a record
Succeeded(b) == {d \in PartKeys(b) : log[d] # <<>> /\ Last(log[d]) = "success"}

AllExistedAtStart == \A b \in DOMAIN startFile : Exists(startFile[b])

----------------------------------------------------------------------------
(* Properties *)

\* C1 Idempotent resume: a run that finds the part file of every batch on
\* disk never invokes the per-document pipeline and leaves every part file
\* exactly as it found it.
C1_IdempotentResume ==
    AllExistedAtStart =>
        /\ logPart = 0
        /\ \A d \in DOMAIN content : invocations[d] = 0 /\ w[d].stage = "idle"
        /\ file = startFile

C1_Witness ==
    /\ run = 2
    /\ AllExistedAtStart
    /\ pc = "done"
    /\ DOMAIN all_results # {}

\* C2 Atomic batch persistence: whoever reads the checkpoint directory finds,
\* for every batch, no part file or a complete one holding all the successful
\* records of the batch; an incomplete part file is never on disk.
C2_AtomicPersistence ==
    \A b \in DOMAIN file :
        /\ file[b].state \in {"absent", "complete"}
        /\ OnRecord(b) => Keys(file[b].data) = Succeeded(b)

\* C3 Partial-failure containment: documents whose pipeline raises are left
\* out and nothing else happens: the run is not aborted by them (it fails
\* only at a part file), the collected batch and its part file hold exactly
\* the documents that returned a record, each with the record it returned.
C3_FailureContainment ==
    /\ pc = "failed" => file[part_number].state = "partial" \/ BatchFinished
    /\ pc \in {"save", "dump"} =>
          /\ Keys(batch_data) = Succeeded(part_number)
          /\ Range(batch_data) \subseteq Range(results)
          /\ \A d \in Keys(batch_data) : all_results[d] \in {r[2] : r \in Range(batch_data)}
    /\ \A b \in DOMAIN file :
          OnRecord(b) /\ file[b].state = "complete" => Keys(file[b].data) = Succeeded(b)

C3_Witness ==
    \E b \in DOMAIN file :
        /\ OnRecord(b) /\ file[b].state = "complete"
        /\ \E d1 \in PartKeys(b), d2 \in PartKeys(b) :
              /\ Last(log[d1]) = "error"
              /\ Len(content[d1]) > 0
              /\ d2 \in Keys(file[b].data)

\* C4 Timeout-retry: the pipeline of a document is invoked at most twice in
\* a run; a first invocation cut off by the wall-clock timeout is followed by
\* exactly one more; if that one succeeds the document is in the batch output,
\* if it is cut off too the document is not.
C4_TimeoutRetry ==
    \A d \in DOMAIN content :
        /\ invocations[d] <= 2
        /\ Len(log[d]) >= 1 /\ log[d][1] = "timeout" => invocations[d] = 2
        /\ w[d].stage = "returned" /\ log[d] = <<"timeout", "success">> =>
              \E r \in Range(results) : r[1] = d /\ r[2] # None
        /\ w[d].stage = "returned" /\ log[d] = <<"timeout", "timeout">> =>
              \E r \in Range(results) : r[1] = d /\ r[2] = None
        /\ OnRecord(PartOf(d)) /\ file[PartOf(d)].state = "complete" =>
              /\ log[d] = <<"timeout", "success">> => d \in Keys(file[PartOf(d)].data)
              /\ log[d] = <<"timeout", "timeout">> => d \notin Keys(file[PartOf(d)].data)

C4_Witness ==
    \E b \in DOMAIN file :
        /\ OnRecord(b) /\ file[b].state = "complete"
        /\ \E d1 \in PartKeys(b), d2 \in PartKeys(b) :
              /\ log[d1] = <<"timeout", "success">>
              /\ log[d2] = <<"timeout", "timeout">>

\* the normalized pages of document d
Pages(d) == NormalizeContent(content[d])

\* the response to the context call issued for page p (0-based) of document d
ResponseFor(d, p) == (CHOOSE c \in Range(w[d].completions) : c.page = p).text

\* C5 Order preservation: once the context calls of a document have all
\* returned, in whatever order, element 0 of the assembled sequence is
\* "file_summary: S\n" + p0 and element i > 0 is "file_summary: S\ncontext: "
\* + c_i + "\npage_content:\n" + p_i with c_i the response to the call for page i.
C5_OrderPreserved ==
    \A d \in DOMAIN content :
        w[d].stage \in {"dense", "sparse"} =>
            LET out == w[d].processed_content
                S == w[d].file_summary
            IN  /\ Len(out) = Len(content[d])
                /\ out[1] = <<"file_summary: ">> \o S \o <<"\n">> \o Pages(d)[1]
                /\ \A k \in 2..Len(out) :
                      out[k] = <<"file_summary: ">> \o S \o <<"\n", "context: ">>
                                   \o ResponseFor(d, k - 1)
                                   \o <<"\n", "page_content:", "\n">> \o Pages(d)[k]

C5_Witness ==
    \E d \in DOMAIN content :
        /\ w[d].stage = "dense"
        /\ Len(content[d]) >= 3
        /\ w[d].completions[1].page = 2
        /\ w[d].completions[1].text # w[d].completions[2].text

\* C6 Record length invariant: every record in a part file has as many
\* contextualized pages, dense embeddings and sparse embeddings as the
\* document has pages.
C6_RecordLengths ==
    \A b \in DOMAIN file :
        \A k \in 1..Len(file[b].data) :
            LET d == file[b].data[k][1]
                r == file[b].data[k][2]
            IN  /\ Len(r.processed_content) = Len(content[d])
                /\ Len(r.embeddings) = Len(content[d])
                /\ Len(r.sparse_embeddings) = Len(content[d])

C6_Witness ==
    \E b \in DOMAIN file :
        /\ file[b].state = "complete"
        /\ \E k \in 1..Len(file[b].data) : Len(file[b].data[k][2].embeddings) >= 3

\* C7 Crash recovery: a run that follows an interrupted run completes: it
\* does not stop at a part file it found, it never invokes the pipeline for a
\* batch whose part file it found, it invokes it for every document of a
\* batch it takes up, and when it ends every batch has a part file.
C7_CrashRecovery ==
    run > 1 /\ prevEnd = "crashed" =>
        /\ pc = "failed" => ~Exists(startFile[part_number])
        /\ \A d \in DOMAIN content : Exists(startFile[PartOf(d)]) => invocations[d] = 0
        /\ pc \in {"save", "dump"} => \A d \in PartKeys(part_number) : invocations[d] >= 1
        /\ pc = "done" => \A b \in DOMAIN file : Exists(file[b])

\* C8 Batch completion ordering: no document is in flight while the part
\* file of its batch is on disk; when a run has written the part file of a
\* batch, every document of the batch has reached a terminal outcome, and once
\* the write has finished the file holds all and only the successful records.
C8_WriteAfterAllTerminal ==
    /\ \A d \in DOMAIN content : InFlight(d) => ~Exists(file[PartOf(d)])
    /\ \A b \in DOMAIN file :
          /\ OnRecord(b) => \A d \in PartKeys(b) : Terminal(d)
          /\ OnRecord(b) /\ file[b].state = "complete" =>
                /\ Keys(file[b].data) = Succeeded(b)
                /\ Len(file[b].data) = Cardinality(Succeeded(b))

C8_Witness ==
    \E b \in DOMAIN file :
        /\ OnRecord(b) /\ file[b].state = "complete"
        /\ Cardinality(PartKeys(b)) = 2
        /\ Cardinality(Succeeded(b)) = 1

\* C9 Persisted batches are immutable: a part file is opened for writing at
\* most once over all runs, and a part file that is on disk and not the one
\* being written is left as it is by every step of every run.
C9_PersistedImmutable ==
    /\ [](\A b \in DOMAIN file : opens[b] <= 1)
    /\ [][\A b \in DOMAIN file :
            Exists(file[b]) /\ ~(pc = "dump" /\ part_number = b) => file'[b] = file[b]]_vars

C9_Witness ==
    /\ run = 2
    /\ startFile[1].state = "complete"
    /\ file[1] = startFile[1]
    /\ WrittenThisRun(2)
    /\ pc = "done"

\* C10 No silent empty context: a document whose summary call or one of whose
\* context calls failed (raised or timed out) returns no record.
C10_NoSilentEmptyContext ==
    \A k \in 1..Len(results) :
        results[k][2] # None => ~w[results[k][1]].failedCall

\* how an invocation ends that neither returned a record nor was cut off by
\* the wall-clock timeout: an exception of a stage, the sparse call giving up
\* on transport errors, the sparse call giving up on per-attempt timeouts
FailureEndings == {"error", "sparse_error", "sparse_timeout"}

\* C11 Failures are not retried: an invocation that ends with a failure that
\* is not the wall-clock timeout is the last invocation for its document in
\* the run; if it is the first one the pipeline was invoked exactly once; the
\* document is delivered without a record.
C11_FailureNotRetried ==
    \A d \in DOMAIN content :
        \A k \in 1..Len(log[d]) :
            log[d][k] \in FailureEndings =>
                /\ k = Len(log[d])
                /\ invocations[d] = k
                /\ ~InFlight(d)
                /\ w[d].stage = "returned" => <<d, None>> \in Range(results)

\* C12 Exhausted sparse-embedding retries escalate to document failure: when
\* the sparse call has given up, on transport errors or on per-attempt
\* timeouts, the pipeline of the document is not invoked again and the
\* document has no record.
C12_SparseExhaustedIsFailure ==
    \A d \in DOMAIN content :
        /\ log[d] # <<>> /\ log[d][1] \in {"sparse_error", "sparse_timeout"} =>
              invocations[d] = 1 /\ ~InFlight(d)
        /\ w[d].stage = "returned" /\ Last(log[d]) \in {"sparse_error", "sparse_timeout"} =>
              \E r \in Range(results) : r[1] = d /\ r[2] = None

\* the page texts prompt q carries, each with the (1-based) page it stands for
PromptPages(q) ==
    {<<q.from + k - 1, q.pages[k]>> : k \in 1..Len(q.pages)}
        \cup (IF q.call = "context" THEN {<<q.page + 1, q.current>>} ELSE {})

\* C13 Normalization precedes every remote call: every page text in a prompt
\* sent to a remote model (metadata, summary, context) is the normalized text
\* of the page it stands for.
C13_OnlyNormalizedPagesSent ==
    \A d \in DOMAIN content :
        \A q \in w[d].prompts :
            \A t \in PromptPages(q) : t[2] = NormalizePage(content[d][t[1]])

\* main() has stopped at the write of the part file of the batch it ran
WriteFailed == pc = "failed" /\ logPart = part_number

\* C14 Batch-file write failure is fatal and leaves no partial file: when the
\* write of a part file fails the run has stopped at that batch, with every
\* later batch untouched, and the batch has no file in the checkpoint
\* directory.
C14_WriteFailureLeavesNoFile ==
    WriteFailed =>
        /\ \A b \in DOMAIN file : b > part_number => file[b] = startFile[b]
        /\ ~Exists(file[part_number])

\* the (key, record) pairs of all part files on disk
PersistedPairs == UNION {Range(file[b].data) : b \in DOMAIN file}

\* C15 Aggregation: when a run finishes, all_results holds exactly the
\* records of the part files of all batches, those the run loaded and those
\* it wrote, each under its document key, and nothing for a document that
\* failed or timed out.
C15_Aggregation ==
    pc = "done" =>
        /\ \A b \in DOMAIN file : file[b].state = "complete"
        /\ DOMAIN all_results = {q[1] : q \in PersistedPairs}
        /\ \A q \in PersistedPairs : all_results[q[1]] = q[2]
        /\ \A d \in DOMAIN content :
              log[d] # <<>> /\ Last(log[d]) # "success" => d \notin DOMAIN all_results

C15_Witness ==
    /\ pc = "done"
    /\ run = 2
    /\ Exists(startFile[1]) /\ Len(file[1].data) = 1
    /\ WrittenThisRun(2) /\ Len(file[2].data) = 1
    /\ Cardinality(DOMAIN all_results) = 2

\* the keys at the sorted positions (k-1)*B .. k*B-1 (0-based) of the input
KeysAtPositions(k) ==
    {all_keys[j + 1] : j \in {n \in 0..(Len(all_keys) - 1) :
                                 (k - 1) * BatchSize <= n /\ n <= k * BatchSize - 1}}

\* C16 Partitioning: the keys are in ascending order; the batch main runs
\* under part number k is the keys at sorted positions (k-1)*B .. k*B-1; every
\* key is in exactly one batch; the file numbered k holds records of batch k
\* only, whether or not earlier batches were skipped.
C16_Partitioning ==
    /\ \A j \in 1..(Len(all_keys) - 1) : all_keys[j] < all_keys[j + 1]
    /\ \A d \in DOMAIN content :
          Cardinality({k \in 1..total_batches : d \in KeysAtPositions(k)}) = 1
    /\ pc \in {"pool", "save", "dump"} =>
          /\ Range(batch_tasks) = KeysAtPositions(part_number)
          /\ Keys(results) \subseteq KeysAtPositions(part_number)
    /\ \A b \in DOMAIN file : Keys(file[b].data) \subseteq KeysAtPositions(b)

C16_Witness ==
    /\ run = 2
    /\ Exists(startFile[1])
    /\ WrittenThisRun(2)
    /\ file[2].state = "complete"
    /\ Keys(file[2].data) = KeysAtPositions(2)

\* the context calls of the invocation working on d that are in flight
CtxInFlight(d) == w[d].started - Len(w[d].completions)

\* C17 Intra-document gate: at every instant at most GateWidth context calls
\* of one pipeline invocation are in flight, counted for each document on its
\* own, and an invocation starts with a gate of its own that nothing has
\* entered yet.
C17_IntraDocumentGate ==
    \A d \in DOMAIN content :
        /\ CtxInFlight(d) >= 0 /\ CtxInFlight(d) <= GateWidth
        /\ w[d].stage \in {"metadata", "summary"} =>
              w[d].started = 0 /\ w[d].completions = <<>>

C17_Witness ==
    \E d \in DOMAIN content :
        /\ w[d].stage = "context"
        /\ w[d].attempt = 1
        /\ CtxInFlight(d) = GateWidth
        /\ w[d].started < Len(w[d].norm) - 1

\* C18 Cross-document pool: at every instant at most max_workers <= cap
\* documents are being processed, all of the running batch; the documents
\* handed out are the first nextTask of the batch, each with at most one
\* invocation at a time and one result; when the pool is exhausted every
\* document of the batch has delivered exactly one result.
C18_WorkerPool ==
    /\ max_workers \in 1..MaxWorkers
    /\ Cardinality(Busy) <= max_workers
    /\ Busy \subseteq (IF pc = "pool" THEN Range(batch_tasks) ELSE {})
    /\ pc = "pool" =>
          \A k \in 1..Len(batch_tasks) : (k <= nextTask) <=> (w[batch_tasks[k]].stage # "idle")
    /\ \A d \in DOMAIN content :
          /\ invocations[d] = Len(log[d]) + (IF InFlight(d) THEN 1 ELSE 0)
          /\ Cardinality({k \in 1..Len(results) : results[k][1] = d})
                = (IF w[d].stage = "returned" THEN 1 ELSE 0)
    /\ pc \in {"save", "dump"} => Keys(results) = Range(batch_tasks)

C18_Witness ==
    /\ pc = "pool"
    /\ Cardinality(Busy) = max_workers
    /\ nextTask < Len(batch_tasks)

\* C19 A document never blocks its batch: under fair scheduling every
\* document a worker has taken up delivers its result, every running batch
\* is collected, and the run ends: with all part files written, or at a part
\* file whose write failed.
C19_NoDocumentBlocksItsBatch ==
    /\ \A d \in 1..NumDocs : [](InFlight(d) => <>(w[d].stage = "returned"))
    /\ [](pc = "pool" => <>(pc = "save"))
    /\ <>(pc = "done" \/ WriteFailed)
    /\ [](pc = "done" => \A b \in DOMAIN file : file[b].state = "complete")

C19_Witness ==
    /\ pc = "done"
    /\ \E d \in DOMAIN content : log[d] = <<"timeout", "timeout">>

\* the metadata structure of a Document Record: a mapping with the string
\* fields entity and time
MetadataShape == [kind |-> "dict", fields |-> {"entity", "time"}]

\* C20 Metadata shape: the metadata of every record in a part file is a
\* mapping with the string fields entity and time; a reply that does not give
\* that structure after repair yields no record.
C20_MetadataShape ==
    \A b \in DOMAIN file :
        \A k \in 1..Len(file[b].data) : file[b].data[k][2].metadata = MetadataShape


\* the sample with punctuation, digits and whitespace stripped
Stripped(text) == SelectSeq(text, LAMBDA c : c \notin {"pu", "nl", "sp"})

\* a call of fn on its own has returned
Returned(fn) == libcall.fn = fn /\ libcall.pc = "done"

\* C21 Language detection: detect_language returns "Chinese" exactly when,
\* after punctuation, digits and whitespace are stripped, the Chinese
\* characters are the plurality script or the second script with a share
\* above 20%, and "English" otherwise; an empty sample, or one that is empty
\* after stripping, gives "English" (characters of no configured script count
\* for the default script).
C21_LanguageDetection ==
    Returned("detect_language") =>
        LET s == Stripped(libcall.arg)
            zh == CountOf(s, {"zh"})
        IN  libcall.out = IF zh > 0 /\ (zh >= Len(s) - zh \/ 5 * zh > Len(s))
                          THEN "Chinese"
                          ELSE "English"

\* the page with every table tag replaced by one space
TagsAsSpaces(text) == [k \in 1..Len(text) |-> IF text[k] \in TableTags THEN " " ELSE text[k]]

\* C22 Text normalization: normalizing a page replaces every table tag
\* (opening or closing, any case) by one space and collapses every run of 21
\* or more consecutive repetitions of a substring to one occurrence, leaves a
\* run of 20 or fewer as it is, and gives the empty string for an empty page.
C22_TextNormalization ==
    Returned("normalize") =>
        LET text == libcall.arg
            out == libcall.out
        IN  /\ \A k \in 1..Len(out) : out[k] \notin TableTags
            /\ IsBlank(text) => out = <<>>
            /\ text \in TagSamples /\ ~IsBlank(text) => out = TagsAsSpaces(text)
            /\ \A pre \in Margins, unit \in RepUnits, n \in 0..MaxReps, post \in Margins :
                 text = RepSample(pre, unit, n, post) /\ ~IsBlank(text) =>
                     out = TagsAsSpaces(pre \o (IF n > RepeatMin THEN unit ELSE Rep(unit, n))
                                            \o post)

\* the sum of the squares of the components, in steps of 2^-(2 Frac)
RECURSIVE SumSq(_)
SumSq(x) == IF x = <<>> THEN 0 ELSE Head(x) * Head(x) + SumSq(Tail(x))

\* y points where x points: no component has the opposite sign, and every
\* 2 x 2 determinant of x and y is zero up to one step per component of y
SameDirection(x, y) ==
    /\ \A k \in 1..Len(x) : x[k] * y[k] >= 0
    /\ \A j, k \in 1..Len(x) : Abs(x[j] * y[k] - x[k] * y[j]) <= Abs(x[j]) + Abs(x[k])

\* C23 Vector normalization: for every non-zero vector of the dense backend
\* the emitted vector has Euclidean norm 1.0, up to the rounding of the
\* arithmetic, and the same direction; a zero vector is returned unchanged.
C23_VectorNormalization ==
    Returned("normalize_embedding") =>
        LET x == libcall.arg
            y == libcall.out
        IN  IF \A k \in 1..Len(x) : x[k] = 0
            THEN y = x
            ELSE /\ Abs(SumSq(y) - Unit * Unit) <= 4 * Len(x) * Unit
                 /\ SameDirection(x, y)

\* the requests among the events of a call
Posts(events) == SelectSeq(events, LAMBDA ev : ev.e = "post")

\* C24 Sparse-embedding retry with backoff: get_sparse_embedding makes at most
\* max_retries attempts; after a failed attempt k (0-based) that is not the
\* last it sleeps 2^k seconds and then makes attempt k + 1; it returns the
\* response of the first successful attempt and makes no attempt after it;
\* after the last failed attempt the error propagates.
C24_SparseRetryBackoff ==
    Returned("get_sparse_embedding") =>
        LET r == libcall.out
            outs == libcall.arg.outs
            attempts == Len(Posts(r.events))
        IN  /\ attempts \in 1..SparseMaxRetries
            /\ Len(r.events) = 2 * attempts - 1
            /\ \A k \in 0..(attempts - 1) : r.events[2 * k + 1] = Post(k)
            /\ \A k \in 0..(attempts - 2) :
                 /\ outs[k + 1] \in {"client_error", "timeout"}
                 /\ r.events[2 * k + 2] = Sleep(2 ^ k)
            /\ outs[attempts] \in {"client_error", "timeout"} => attempts = SparseMaxRetries
            /\ r.kind = "return" <=> outs[attempts] = "ok"
            /\ r.kind = "return" =>
                 r.value = [k \in 1..Len(libcall.arg.text) |-> SparseVector(libcall.arg.text[k])]
            /\ r.kind # "return" => r.kind \in {"raise_client", "raise_timeout", "raise_other"}

\* the third attempt succeeded after two that failed: the call slept 1 s and 2 s
C24_Witness ==
    /\ Returned("get_sparse_embedding")
    /\ libcall.out.kind = "return"
    /\ libcall.out.events = <<Post(0), Sleep(1), Post(1), Sleep(2), Post(2)>>

\* C25 Empty-input short-circuit: called with an empty list of strings, the
\* embedding generator makes no call to the dense backend, and its dense
\* result is the empty list.
C25_EmptyInputShortCircuit ==
    Returned("generate_embeddings") /\ libcall.arg.text = <<>> =>
        /\ libcall.out.requests = 0
        /\ libcall.out.kind # "raise"
        /\ libcall.out.embeddings = <<>>

\* the generator returned for an empty list while the dense backend was down
C25_Witness ==
    /\ Returned("generate_embeddings")
    /\ libcall.arg.text = <<>>
    /\ libcall.arg.outcome = "error"
    /\ libcall.out.kind = "return"
    /\ libcall.out.embeddings = <<>>

\* C26 Context window: the prompt of the context call for page i (0-based,
\* 1 <= i <= N-1) carries the document summary, as its window the pages
\* max(0, i-2)..i in page order, the last of them page i itself, and as its
\* current page the text of page i.
C26_ContextWindow ==
    \A d \in DOMAIN content :
        \A q \in w[d].prompts :
            q.call = "context" =>
                LET lo == IF q.page - 2 > 0 THEN q.page - 2 ELSE 0
                IN  /\ q.summary = w[d].file_summary
                    /\ q.pages = SubSeq(w[d].norm, lo + 1, q.page + 1)
                    /\ q.current = w[d].norm[q.page + 1]

\* the state of batch b: RUNNING from the moment it is handed to the pool until
\* its part file is opened, PERSISTED when its part file is on disk, PENDING
\* otherwise; as a number, 0 for PENDING, 1 for RUNNING, 2 for PERSISTED
BatchState(b) ==
    IF part_number = b /\ pc \in {"pool", "save"} THEN 1
    ELSE IF Exists(file[b]) THEN 2
    ELSE 0

\* C27 Batch state machine: a batch moves only PENDING -> RUNNING -> PERSISTED:
\* a PERSISTED batch stays PERSISTED whatever happens, and while a run goes on
\* no batch moves backwards or skips a state; at most one batch is RUNNING,
\* and a batch starts only when every batch before it is PERSISTED.
C27_BatchStateMachine ==
    [][\A b \in DOMAIN file :
          /\ BatchState(b) = 2 => BatchState(b)' = 2
          /\ run' = run /\ pc' \in {"loop", "pool", "save", "dump", "done"} =>
                BatchState(b)' \in {BatchState(b), BatchState(b) + 1}
          /\ BatchState(b) = 0 /\ BatchState(b)' = 1 =>
                \A k \in 1..(b - 1) : BatchState(k) = 2
          /\ BatchState(b)' = 1 => \A k \in DOMAIN file \ {b} : BatchState(k)' # 1]_vars

\* the second batch is running in a run that found the first one on disk
C27_Witness ==
    /\ run = 2
    /\ BatchState(1) = 2
    /\ BatchState(2) = 1
    /\ pc = "pool"

\* the prompts of the calls of one kind that the invocation working on d has issued
Issued(d, kind) == {q \in w[d].prompts : q.call = kind}

\* C28 Call budget per document: an invocation that has made all its model
\* calls on a document of N >= 1 pages, as every invocation that succeeds has,
\* issued exactly one metadata call, one summary call, and one context call
\* for each page 1..N-1 and none for page 0, N+1 calls in all; no context call
\* is issued before the summary call has returned.
C28_CallBudget ==
    \A d \in DOMAIN content :
        LET N == Len(content[d])
        IN  /\ Issued(d, "context") # {} => w[d].stage \in {"context", "dense", "sparse"}
            /\ \A q \in Issued(d, "context") : q.page \in 1..(N - 1)
            /\ w[d].stage \in {"dense", "sparse"} =>
                 /\ N >= 1
                 /\ Cardinality(Issued(d, "metadata")) = 1
                 /\ Cardinality(Issued(d, "summary")) = 1
                 /\ {q.page : q \in Issued(d, "context")} = 1..(N - 1)
                 /\ Cardinality(Issued(d, "context")) = N - 1
                 /\ Cardinality(w[d].prompts) = N + 1

\* a document of three pages has its content assembled after four calls
C28_Witness ==
    \E d \in DOMAIN content :
        /\ Len(content[d]) = 3
        /\ w[d].stage = "sparse"
        /\ Cardinality(w[d].prompts) = 4
        /\ Cardinality(Issued(d, "context")) = 2

\* C29 Backend failover: one qwen_vl_predict call tries backends taken from the
\* configured list, removes a backend from the candidates when it raises and
\* so tries each backend at most once; it returns the response of the first
\* backend that does not raise, raises only when every backend has raised,
\* and ends within as many attempts as there are backends.
C29_BackendFailover ==
    libcall.fn = "qwen_vl_predict" =>
        LET tried == libcall.tried
            does == libcall.arg.does
            raised == {m \in qwen_vl_local_list : does[m] = "error"}
        IN  /\ Range(tried) \subseteq qwen_vl_local_list
            /\ \A j, k \in 1..Len(tried) : j # k => tried[j] # tried[k]
            /\ Len(tried) <= NumBackends
            /\ libcall.available_models = qwen_vl_local_list \ (Range(tried) \cap raised)
            /\ \A k \in 1..(Len(tried) - 1) : tried[k] \in raised
            /\ libcall.pc = "called" => Range(tried) \subseteq raised
            /\ libcall.pc = "done" =>
                 /\ tried # <<>>
                 /\ libcall.out = ModelCall(does[tried[Len(tried)]], libcall.arg.reply)
                 /\ libcall.out.kind = "raise" <=> raised = qwen_vl_local_list
                 /\ libcall.out.kind = "raise" => Range(tried) = qwen_vl_local_list

\* the call returned the reply of the third backend it tried, not in list order
C29_Witness ==
    /\ Returned("qwen_vl_predict")
    /\ Len(libcall.tried) = NumBackends
    /\ libcall.tried[1] # 1
    /\ libcall.out = [kind |-> "return", text |-> libcall.arg.reply]

\* C30 Dropped documents stay dropped: a document that has no record in the
\* part file of its batch, a file this run found on disk (be it empty), is
\* not processed by this run and is not in its aggregated result; and a
\* document whose pipeline ended in failure or timeout in this run is not in
\* the aggregated result either.
C30_DroppedStayDropped ==
    \A d \in DOMAIN content :
        LET b == PartOf(d)
        IN  /\ Exists(startFile[b]) /\ d \notin Keys(startFile[b].data) =>
                 /\ invocations[d] = 0
                 /\ w[d].stage = "idle"
                 /\ d \notin DOMAIN all_results
            /\ logPart = b /\ Terminal(d) /\ Last(log[d]) # "success" =>
                 d \notin DOMAIN all_results

\* a second run has completed over a checkpoint directory in which the part
\* file of the first batch is complete and empty: all its documents had failed
C30_Witness ==
    /\ run = 2
    /\ pc = "done"
    /\ prevEnd = "done"
    /\ startFile[1] = [state |-> "complete", data |-> <<>>]
    /\ DOMAIN all_results # {}

\* C31 Backend timeout bypasses failover: when the backend qwen_vl_predict has
\* chosen times out, the call ends there and returns the empty string, and
\* no other backend is tried; every backend tried before the last one raised
\* an exception that is no timeout.
C31_TimeoutBypassesFailover ==
    libcall.fn = "qwen_vl_predict" =>
        LET tried == libcall.tried
            does == libcall.arg.does
        IN  /\ \A k \in 1..Len(tried) :
                 does[tried[k]] = "timeout" =>
                     /\ k = Len(tried)
                     /\ libcall.pc = "done"
                     /\ libcall.out = [kind |-> "return", text |-> <<>>]
            /\ \A k \in 1..(Len(tried) - 1) : does[tried[k]] = "error"

\* the first backend chosen timed out while another one would have answered
C31_Witness ==
    /\ Returned("qwen_vl_predict")
    /\ Len(libcall.tried) = 1
    /\ libcall.arg.does[libcall.tried[1]] = "timeout"
    /\ \E m \in qwen_vl_local_list : libcall.arg.does[m] = "ok"
    /\ libcall.out.text = <<>>

\* C32: when two runs of main() execute at once over the same input and the
\* same checkpoint directory, no batch is handed to a pool by both runs and no
\* part file is opened for writing by both
C32_ConcurrentRunsShareNoWork ==
    peer.pc # "none" =>
        \A b \in DOMAIN file :
            /\ ~(logPart = b /\ b \in peer.ran)
            /\ ~(opens[b] >= 1 /\ b \in peer.wrote)

\* the results the pool has delivered for the document d
ResultsOf(d) == {results[k][2] : k \in {j \in 1..Len(results) : results[j][1] = d}}

\* C33 Zero-page document: a document whose page list is empty is invoked at
\* most once, its invocation issues no model call and never reaches the
\* embedding calls, every result the pool delivers for it is the failure
\* None, once it has returned it has been invoked exactly once and failed,
\* and no record of it is in batch_data, in all_results or in a part file.
C33_ZeroPageDocument ==
    \A d \in DOMAIN content :
        Len(content[d]) = 0 =>
            /\ invocations[d] <= 1
            /\ w[d].prompts = {}
            /\ w[d].stage \in {"idle", "metadata", "returned"}
            /\ ResultsOf(d) \subseteq {None}
            /\ log[d] \in {<<>>, <<"error">>}
            /\ w[d].stage = "returned" =>
                 /\ invocations[d] = 1
                 /\ ResultsOf(d) = {None}
                 /\ log[d] = <<"error">>
            /\ \A k \in 1..Len(batch_data) : batch_data[k][1] # d
            /\ d \notin DOMAIN all_results
            /\ \A b \in DOMAIN file : \A k \in 1..Len(file[b].data) : file[b].data[k][1] # d

\* the batch of a document without pages is over: the document failed after
\* one invocation and the part file was written without it
C33_Witness ==
    \E d \in DOMAIN content :
        /\ Len(content[d]) = 0
        /\ invocations[d] = 1
        /\ log[d] = <<"error">>
        /\ pc = "dump"
        /\ batch_data = <<>>

\* the attempts of a run of outcomes that are made before one fails with an
\* error that is neither a client error nor a timeout
OtherErrorAt(outs) ==
    {k \in DOMAIN outs :
        /\ outs[k] = "other"
        /\ \A j \in 1..(k - 1) : outs[j] \in {"client_error", "timeout"}}

\* C35 Only transport errors are retried: when an attempt of
\* get_sparse_embedding fails with an error that is neither a client error
\* nor a timeout, that error propagates; the request of that attempt is the
\* last thing the call does: no sleep and no request follows it.
C35_OnlyTransportErrorsRetried ==
    Returned("get_sparse_embedding") =>
        \A k \in OtherErrorAt(libcall.arg.outs) :
            LET events == libcall.out.events
            IN  /\ libcall.out.kind = "raise_other"
                /\ Len(Posts(events)) = k
                /\ Last(events) = Post(k - 1)
                /\ \A n \in 1..Len(events) :
                     events[n] = Post(k - 1) => n = Len(events)
                /\ \A n \in 1..Len(events) :
                     events[n].e = "sleep" => events[n].n # wait_time(k - 1)

\* the first attempt failed with such an error although the later ones would
\* have succeeded: one request, no sleep, the error propagated
C35_Witness ==
    /\ Returned("get_sparse_embedding")
    /\ libcall.arg.outs = <<"other", "ok", "ok">>
    /\ libcall.out.kind = "raise_other"
    /\ libcall.out.events = <<Post(0)>>

\* the sum of the counts of the entries of a result of detect
RECURSIVE SumOfCounts(_)
SumOfCounts(lang_list) ==
    IF lang_list = <<>> THEN 0 ELSE Head(lang_list).count + SumOfCounts(Tail(lang_list))

\* the entries of a result of detect for the bucket lang
Bucket(lang_list, lang) == SelectSeq(lang_list, LAMBDA e : e.lang = lang)

\* C38 Unknown bucket in the alternate mode: detect with unknownUseDefault=False
\* reports for "unknown" the share (cleaned characters matching no configured
\* script) / (cleaned characters), so that the shares of all buckets sum to 1;
\* in the default mode those characters are added to the English count and
\* no "unknown" bucket is reported.
C38_UnknownBucket ==
    Returned("detect") =>
        LET cleaned == cleaning_text(libcall.arg.text)
            unknown == Len(cleaned) - CountOf(cleaned, {"zh", "en"})
            out == libcall.out
        IN  IF libcall.arg.unknownUseDefault
            THEN /\ Bucket(out, "unknown") = <<>>
                 /\ CountOf(cleaned, {"en"}) + unknown > 0 =>
                      Bucket(out, "en") = <<[lang |-> "en", of |-> Len(cleaned),
                                             count |-> CountOf(cleaned, {"en"}) + unknown]>>
                 /\ Len(cleaned) > 0 => SumOfCounts(out) = Len(cleaned)
            ELSE /\ unknown > 0 =>
                      Bucket(out, "unknown") = <<[lang |-> "unknown", of |-> Len(cleaned),
                                                  count |-> unknown]>>
                 /\ unknown = 0 => Bucket(out, "unknown") = <<>>
                 /\ Len(cleaned) > 0 => SumOfCounts(out) = Len(cleaned)

\* the calls of get_ocr made so far
OcrCalls == IF libcall.fn = "get_ocr" THEN libcall.calls ELSE <<>>

WithHash(files, S, h) == {f \in S : files[f].md5 = h}

\* the claim about a call: for every content hash that had a file before the
\* call exactly one file with that hash remains, one of the preferred
\* directory if the hash had a file there, and a file whose hash is unique
\* remains
OneFilePerHash ==
    LET files == libcall.arg
        remaining == libcall.out.remaining
    IN  \A h \in {files[f].md5 : f \in DOMAIN files} :
            LET before == WithHash(files, DOMAIN files, h)
                after == WithHash(files, remaining, h)
            IN  /\ Cardinality(after) = 1
                /\ (\E f \in before : files[f].level1) => \A f \in after : files[f].level1
                /\ Cardinality(before) = 1 => after = before

====
